---- MODULE Spec2Model ----
(***************************************************************************)
(* Brazilian draughts (damas): the rules engine (board model, move         *)
(* generator, move executor, game-end evaluator) and the session           *)
(* coordinator (socket server holding one Room per online match).          *)
(***************************************************************************)
EXTENDS Integers, Sequences, FiniteSets, TLC

VARIABLES
    inBoard,     \* rules engine: the board handed to the move generator
    inPlayer,    \* rules engine: the player handed to the move generator
    outMoves,    \* rules engine: the list the last getAllValidMoves call returned
    prevBoard,   \* rules engine: the board the last executeMove call was given
    lastMove,    \* rules engine: the move the last executeMove call was given
    plies,       \* rules engine: number of executeMove calls so far
    pc           \* rules engine: "input" before getAllValidMoves, "moves" after it

engineVars == <<inBoard, inPlayer, outMoves, prevBoard, lastMove, plies, pc>>

VARIABLES
    rooms,       \* coordinator: the registry Map<roomId, RoomState>
    joined,      \* coordinator: per room id, the sockets that did socket.join(roomId)
    connected,   \* coordinator: the sockets currently connected
    timers,      \* coordinator: pending game-start timeouts, each holding its Room object
    idsUsed,     \* coordinator: number of room ids generated so far
    movesDone,   \* coordinator: number of moves applied so far (bounds the exploration)
    eventsDone,  \* coordinator: number of events handled so far (bounds the exploration)
    lastAccepted, \* coordinator: roomId -> sender and side of the last move applied since the Room was created or reset
    last         \* coordinator: the event being handled and the messages it emitted

coordVars == <<rooms, joined, connected, timers, idsUsed, movesDone, eventsDone, lastAccepted, last>>

VARIABLES
    outEnd       \* rules engine: what checkGameEnd returned for (inBoard, inPlayer)

endVars == <<outEnd>>

VARIABLES
    aiDifficulty, \* AI: the difficulty tier of the call
    aiRandom,     \* AI: the values Math.random() handed out during the call
    outBest,      \* AI: what getBestMove returned for (inBoard, inPlayer, aiDifficulty)
    aiNode,       \* AI: depth and isMaximizing of a minimax call on (inBoard, inPlayer)
    outScore      \* AI: what that minimax call returned

aiVars == <<aiDifficulty, aiRandom, outBest, aiNode, outScore>>

VARIABLES
    store,        \* game store: the state object of useGameStore
    pending,      \* game store: the AI turns in flight, oldest first
    storeMoves    \* game store: how many moves makeMove has applied so far

storeVars == <<store, pending, storeMoves>>

auxVars == <<endVars, aiVars, storeVars>>

\* ------------------------------------------------------------------------
\* engine/types.ts, engine/board.ts
\* ------------------------------------------------------------------------

BOARD_SIZE == 8

Coords == 0..(BOARD_SIZE - 1)

\* `null` of (Piece | null) and of (Position | null)
Null == [player |-> "none", type |-> "none"]
NoPos == [row |-> -1, col |-> -1]

Pos(r, c) == [row |-> r, col |-> c]

\* `null` of (Move | null)
NoMove == [from |-> NoPos, to |-> NoPos, captures |-> <<>>, isPromotion |-> FALSE]
Piece(p, t) == [player |-> p, type |-> t]

Max(S) == CHOOSE x \in S : \A y \in S : y <= x

RECURSIVE Flatten(_)
Flatten(ss) == IF Len(ss) = 0 THEN <<>> ELSE Head(ss) \o Flatten(Tail(ss))

\* Array.prototype.some(c => positionsEqual(c, p))
positionsEqual(a, b) == a.row = b.row /\ a.col = b.col
some(ps, p) == \E i \in 1..Len(ps) : positionsEqual(ps[i], p)

EmptyBoard == [r \in Coords |-> [c \in Coords |-> Null]]

\* createInitialBoard with white's third rank left empty
createInitialBoard_twoRanks ==
    [row \in Coords |-> [col \in Coords |->
        IF (row + col) % 2 = 1
        THEN IF row < 2 THEN Piece("white", "pawn")
             ELSE IF row > 4 THEN Piece("black", "pawn")
             ELSE Null
        ELSE Null]]

createInitialBoard ==
    [row \in Coords |-> [col \in Coords |->
        IF (row + col) % 2 = 1
        THEN IF row < 3 THEN Piece("white", "pawn")
             ELSE IF row > 4 THEN Piece("black", "pawn")
             ELSE Null
        ELSE Null]]

cloneBoard(board) ==
    [r \in DOMAIN board |-> [c \in DOMAIN board[r] |->
        IF board[r][c] # Null
        THEN [player |-> board[r][c].player, type |-> board[r][c].type]
        ELSE Null]]

isValidPosition(pos) ==
    pos.row >= 0 /\ pos.row < BOARD_SIZE /\ pos.col >= 0 /\ pos.col < BOARD_SIZE

getPieceAt(board, pos) ==
    IF ~isValidPosition(pos) THEN Null ELSE board[pos.row][pos.col]

setPieceAt(board, pos, piece) ==
    IF isValidPosition(pos) THEN [board EXCEPT ![pos.row][pos.col] = piece] ELSE board

\* the squares in the row-major order of the nested for loops
AllPositions ==
    [i \in 1..(BOARD_SIZE * BOARD_SIZE) |-> Pos((i - 1) \div BOARD_SIZE, (i - 1) % BOARD_SIZE)]

getPlayerPieces(board, player) ==
    SelectSeq(AllPositions, LAMBDA p : board[p.row][p.col] # Null /\ board[p.row][p.col].player = player)

countPieces(board, player) == Len(getPlayerPieces(board, player))

\* getOpponent that hands the turn back to the same player
getOpponent_same(player) == player

getOpponent(player) == IF player = "white" THEN "black" ELSE "white"

\* ------------------------------------------------------------------------
\* engine/moves.ts
\* ------------------------------------------------------------------------

DIRECTIONS ==
    << [row |-> -1, col |-> -1], [row |-> -1, col |-> 1],
       [row |-> 1, col |-> -1], [row |-> 1, col |-> 1] >>

\* getDirections with a white pawn stepping straight ahead
getDirections_straight(piece) ==
    IF piece.type = "king" THEN DIRECTIONS
    ELSE IF piece.player = "white"
         THEN << [row |-> 1, col |-> 0], [row |-> 1, col |-> 1] >>
         ELSE << [row |-> -1, col |-> -1], [row |-> -1, col |-> 1] >>

getDirections(piece) ==
    IF piece.type = "king" THEN DIRECTIONS
    ELSE IF piece.player = "white"
         THEN << [row |-> 1, col |-> -1], [row |-> 1, col |-> 1] >>
         ELSE << [row |-> -1, col |-> -1], [row |-> -1, col |-> 1] >>

\* shouldPromote that never promotes
shouldPromote_never(pos, player) == FALSE

shouldPromote(pos, player) ==
    IF player = "white" THEN pos.row = BOARD_SIZE - 1 ELSE pos.row = 0

\* the while loop of the king branch of getNonCaptureMovesForPiece
RECURSIVE kingSlide(_, _, _, _)

\* kingSlide that stops after the first square
kingSlide_oneStep(board, pos, dir, newPos) ==
    IF isValidPosition(newPos) /\ getPieceAt(board, newPos) = Null
    THEN << [from |-> pos, to |-> newPos, captures |-> <<>>, isPromotion |-> FALSE] >>
    ELSE <<>>

kingSlide(board, pos, dir, newPos) ==
    IF isValidPosition(newPos) /\ getPieceAt(board, newPos) = Null
    THEN << [from |-> pos, to |-> newPos, captures |-> <<>>, isPromotion |-> FALSE] >>
         \o kingSlide(board, pos, dir, Pos(newPos.row + dir.row, newPos.col + dir.col))
    ELSE <<>>

getNonCaptureMovesForPiece(board, pos, piece) ==
    LET directions == getDirections(piece)
    IN  IF piece.type = "pawn"
        THEN Flatten([d \in 1..Len(directions) |->
                 LET dir == directions[d]
                     newPos == Pos(pos.row + dir.row, pos.col + dir.col)
                 IN  IF isValidPosition(newPos) /\ getPieceAt(board, newPos) = Null
                     THEN << [from |-> pos, to |-> newPos, captures |-> <<>>,
                              isPromotion |-> shouldPromote(newPos, piece.player)] >>
                     ELSE <<>>])
        ELSE Flatten([d \in 1..Len(directions) |->
                 LET dir == directions[d]
                 IN  kingSlide(board, pos, dir, Pos(pos.row + dir.row, pos.col + dir.col))])

\* newCaptured.concat(continued.captures.filter(c => !newCaptured.some(...)))
chainCaptures(newCaptured, continued) ==
    newCaptured \o SelectSeq(continued.captures, LAMBDA c : ~some(newCaptured, c))

RECURSIVE getCapturesForPiece(_, _, _, _)
RECURSIVE kingCaptureScan(_, _, _, _, _, _, _)

\* pawnCaptureDir where the chain goes on as a pawn after landing on the farthest rank
pawnCaptureDir_staysPawn(board, pos, piece, capturedSoFar, dir) ==
    LET enemyPos == Pos(pos.row + dir.row, pos.col + dir.col)
        landPos == Pos(pos.row + dir.row * 2, pos.col + dir.col * 2)
    IN  IF ~isValidPosition(enemyPos) \/ ~isValidPosition(landPos) THEN <<>>
        ELSE IF some(capturedSoFar, enemyPos) THEN <<>>
        ELSE
          LET enemyPiece == getPieceAt(board, enemyPos)
              landPiece == getPieceAt(board, landPos)
          IN  IF enemyPiece # Null /\ enemyPiece.player # piece.player /\ landPiece = Null
              THEN
                LET newCaptured == Append(capturedSoFar, enemyPos)
                    willPromote == shouldPromote(landPos, piece.player)
                    movedPiece == piece
                    tempBoard == setPieceAt(setPieceAt(setPieceAt(cloneBoard(board),
                                     pos, Null), enemyPos, Null), landPos, movedPiece)
                    continuedCaptures ==
                        getCapturesForPiece(tempBoard, landPos, movedPiece, newCaptured)
                IN  IF Len(continuedCaptures) > 0
                    THEN [i \in 1..Len(continuedCaptures) |->
                            [from |-> pos, to |-> continuedCaptures[i].to,
                             captures |-> chainCaptures(newCaptured, continuedCaptures[i]),
                             isPromotion |-> continuedCaptures[i].isPromotion \/ willPromote]]
                    ELSE << [from |-> pos, to |-> landPos, captures |-> newCaptured,
                             isPromotion |-> willPromote] >>
              ELSE <<>>

\* one iteration of the pawn branch's loop over the directions
pawnCaptureDir(board, pos, piece, capturedSoFar, dir) ==
    LET enemyPos == Pos(pos.row + dir.row, pos.col + dir.col)
        landPos == Pos(pos.row + dir.row * 2, pos.col + dir.col * 2)
    IN  IF ~isValidPosition(enemyPos) \/ ~isValidPosition(landPos) THEN <<>>
        ELSE IF some(capturedSoFar, enemyPos) THEN <<>>
        ELSE
          LET enemyPiece == getPieceAt(board, enemyPos)
              landPiece == getPieceAt(board, landPos)
          IN  IF enemyPiece # Null /\ enemyPiece.player # piece.player /\ landPiece = Null
              THEN
                LET newCaptured == Append(capturedSoFar, enemyPos)
                    willPromote == shouldPromote(landPos, piece.player)
                    movedPiece == IF willPromote THEN [piece EXCEPT !.type = "king"] ELSE piece
                    tempBoard == setPieceAt(setPieceAt(setPieceAt(cloneBoard(board),
                                     pos, Null), enemyPos, Null), landPos, movedPiece)
                    continuedCaptures ==
                        getCapturesForPiece(tempBoard, landPos, movedPiece, newCaptured)
                IN  IF Len(continuedCaptures) > 0
                    THEN [i \in 1..Len(continuedCaptures) |->
                            [from |-> pos, to |-> continuedCaptures[i].to,
                             captures |-> chainCaptures(newCaptured, continuedCaptures[i]),
                             isPromotion |-> continuedCaptures[i].isPromotion \/ willPromote]]
                    ELSE << [from |-> pos, to |-> landPos, captures |-> newCaptured,
                             isPromotion |-> willPromote] >>
              ELSE <<>>

\* the `else if (foundEnemy)` body of the king branch: one landing square
kingLanding(board, pos, piece, capturedSoFar, foundEnemy, checkPos) ==
    LET newCaptured == Append(capturedSoFar, foundEnemy)
        tempBoard == setPieceAt(setPieceAt(setPieceAt(cloneBoard(board),
                         pos, Null), foundEnemy, Null), checkPos, piece)
        continuedCaptures == getCapturesForPiece(tempBoard, checkPos, piece, newCaptured)
    IN  IF Len(continuedCaptures) > 0
        THEN [i \in 1..Len(continuedCaptures) |->
                [from |-> pos, to |-> continuedCaptures[i].to,
                 captures |-> chainCaptures(newCaptured, continuedCaptures[i]),
                 isPromotion |-> FALSE]]
        ELSE << [from |-> pos, to |-> checkPos, captures |-> newCaptured,
                 isPromotion |-> FALSE] >>

\* kingCaptureScan that scans on past a second piece instead of stopping
kingCaptureScan_jumpsTwo(board, pos, piece, capturedSoFar, dir, distance, foundEnemy) ==
    LET checkPos == Pos(pos.row + dir.row * distance, pos.col + dir.col * distance)
    IN  IF ~isValidPosition(checkPos) THEN <<>>
        ELSE
          LET checkPiece == getPieceAt(board, checkPos)
          IN  IF checkPiece # Null
              THEN IF foundEnemy # NoPos
                   THEN kingCaptureScan(board, pos, piece, capturedSoFar, dir,
                                        distance + 1, foundEnemy)
                   ELSE IF checkPiece.player = piece.player THEN <<>>
                   ELSE IF some(capturedSoFar, checkPos)
                        THEN kingCaptureScan(board, pos, piece, capturedSoFar, dir,
                                             distance + 1, foundEnemy)
                        ELSE kingCaptureScan(board, pos, piece, capturedSoFar, dir,
                                             distance + 1, checkPos)
              ELSE IF foundEnemy # NoPos
                   THEN kingLanding(board, pos, piece, capturedSoFar, foundEnemy, checkPos)
                        \o kingCaptureScan(board, pos, piece, capturedSoFar, dir,
                                           distance + 1, foundEnemy)
                   ELSE kingCaptureScan(board, pos, piece, capturedSoFar, dir,
                                        distance + 1, foundEnemy)

\* the `while (true)` loop of the king branch, from `distance` on
kingCaptureScan(board, pos, piece, capturedSoFar, dir, distance, foundEnemy) ==
    LET checkPos == Pos(pos.row + dir.row * distance, pos.col + dir.col * distance)
    IN  IF ~isValidPosition(checkPos) THEN <<>>
        ELSE
          LET checkPiece == getPieceAt(board, checkPos)
          IN  IF checkPiece # Null
              THEN IF foundEnemy # NoPos THEN <<>>
                   ELSE IF checkPiece.player = piece.player THEN <<>>
                   ELSE IF some(capturedSoFar, checkPos)
                        THEN kingCaptureScan(board, pos, piece, capturedSoFar, dir,
                                             distance + 1, foundEnemy)
                        ELSE kingCaptureScan(board, pos, piece, capturedSoFar, dir,
                                             distance + 1, checkPos)
              ELSE IF foundEnemy # NoPos
                   THEN kingLanding(board, pos, piece, capturedSoFar, foundEnemy, checkPos)
                        \o kingCaptureScan(board, pos, piece, capturedSoFar, dir,
                                           distance + 1, foundEnemy)
                   ELSE kingCaptureScan(board, pos, piece, capturedSoFar, dir,
                                        distance + 1, foundEnemy)

getCapturesForPiece(board, pos, piece, capturedSoFar) ==
    LET directions == DIRECTIONS
    IN  IF piece.type = "pawn"
        THEN Flatten([d \in 1..Len(directions) |->
                 pawnCaptureDir(board, pos, piece, capturedSoFar, directions[d])])
        ELSE Flatten([d \in 1..Len(directions) |->
                 kingCaptureScan(board, pos, piece, capturedSoFar, directions[d], 1, NoPos)])

capturesLengths(ms) == {Len(ms[i].captures) : i \in 1..Len(ms)}

getMovesForPiece(board, pos, piece) ==
    LET captures == getCapturesForPiece(board, pos, piece, <<>>)
    IN  IF Len(captures) > 0
        THEN LET maxCaptures == Max(capturesLengths(captures))
             IN  SelectSeq(captures, LAMBDA c : Len(c.captures) = maxCaptures)
        ELSE getNonCaptureMovesForPiece(board, pos, piece)

\* getAllValidMoves without the mandatory-capture rule
getAllValidMoves_noMandatory(board, player) ==
    LET pieces == getPlayerPieces(board, player)
    IN  Flatten([i \in 1..Len(pieces) |->
            getMovesForPiece(board, pieces[i], getPieceAt(board, pieces[i]))])

\* getAllValidMoves with the maximum taken per piece only
getAllValidMoves_perPieceMax(board, player) ==
    LET pieces == getPlayerPieces(board, player)
        perPiece == [i \in 1..Len(pieces) |->
                        getMovesForPiece(board, pieces[i], getPieceAt(board, pieces[i]))]
        allCaptures == Flatten([i \in 1..Len(pieces) |->
                        SelectSeq(perPiece[i], LAMBDA m : Len(m.captures) > 0)])
        allMoves == Flatten([i \in 1..Len(pieces) |->
                        SelectSeq(perPiece[i], LAMBDA m : Len(m.captures) = 0)])
    IN  IF Len(allCaptures) > 0 THEN allCaptures ELSE allMoves

getAllValidMoves(board, player) ==
    LET pieces == getPlayerPieces(board, player)
        perPiece == [i \in 1..Len(pieces) |->
                        getMovesForPiece(board, pieces[i], getPieceAt(board, pieces[i]))]
        allCaptures == Flatten([i \in 1..Len(pieces) |->
                        SelectSeq(perPiece[i], LAMBDA m : Len(m.captures) > 0)])
        allMoves == Flatten([i \in 1..Len(pieces) |->
                        SelectSeq(perPiece[i], LAMBDA m : Len(m.captures) = 0)])
    IN  IF Len(allCaptures) > 0
        THEN LET maxCaptures == Max(capturesLengths(allCaptures))
             IN  SelectSeq(allCaptures, LAMBDA m : Len(m.captures) = maxCaptures)
        ELSE allMoves

RECURSIVE clearAll(_, _)
clearAll(board, ps) ==
    IF Len(ps) = 0 THEN board ELSE clearAll(setPieceAt(board, Head(ps), Null), Tail(ps))

\* executeMove that leaves the captured pieces on the board
executeMove_keepCaptured(board, move) ==
    LET newBoard == cloneBoard(board)
        piece == getPieceAt(newBoard, move.from)
    IN  IF piece = Null THEN newBoard
        ELSE LET finalPiece == IF move.isPromotion THEN [piece EXCEPT !.type = "king"] ELSE piece
             IN  setPieceAt(setPieceAt(newBoard, move.from, Null), move.to, finalPiece)

executeMove(board, move) ==
    LET newBoard == cloneBoard(board)
        piece == getPieceAt(newBoard, move.from)
    IN  IF piece = Null THEN newBoard
        ELSE LET finalPiece == IF move.isPromotion THEN [piece EXCEPT !.type = "king"] ELSE piece
             IN  setPieceAt(clearAll(setPieceAt(newBoard, move.from, Null), move.captures),
                            move.to, finalPiece)

\* checkGameEnd that only looks at the piece counts
checkGameEnd_piecesOnly(board, currentPlayer) ==
    IF Len(getPlayerPieces(board, getOpponent(currentPlayer))) = 0
    THEN [ended |-> TRUE, winner |-> currentPlayer]
    ELSE IF Len(getPlayerPieces(board, currentPlayer)) = 0
         THEN [ended |-> TRUE, winner |-> getOpponent(currentPlayer)]
         ELSE [ended |-> FALSE, winner |-> "none"]

checkGameEnd(board, currentPlayer) ==
    LET opponent == getOpponent(currentPlayer)
        opponentPieces == getPlayerPieces(board, opponent)
    IN  IF Len(opponentPieces) = 0 THEN [ended |-> TRUE, winner |-> currentPlayer]
        ELSE IF Len(getAllValidMoves(board, currentPlayer)) = 0
             THEN [ended |-> TRUE, winner |-> opponent]
             ELSE [ended |-> FALSE, winner |-> "none"]

\* ------------------------------------------------------------------------
\* server/socketHandler.ts: the session coordinator
\* (server.js and ws-server.js carry the same handlers)
\* ------------------------------------------------------------------------

NumClients == 2
MaxRooms == 1
MaxMoves == 2
MaxEvents == 4

Clients == 1..NumClients
RoomIds == 1..MaxRooms

\* `undefined` of the optional guestId
NoClient == 0

\* no move applied yet
NoAccepted == [sender |-> NoClient, side |-> "none"]

NoRoom ==
    [id |-> 0, hostId |-> NoClient, guestId |-> NoClient, status |-> "none",
     board |-> EmptyBoard, currentPlayer |-> "none", capturedWhite |-> 0, capturedBlack |-> 0]

serverCreateInitialBoard ==
    [row \in Coords |-> [col \in Coords |->
        IF row < 3 /\ (row + col) % 2 = 1 THEN Piece("black", "pawn")
        ELSE IF row >= 5 /\ row < 8 /\ (row + col) % 2 = 1 THEN Piece("white", "pawn")
        ELSE Null]]

serverCloneBoard(board) ==
    [r \in DOMAIN board |-> [c \in DOMAIN board[r] |->
        IF board[r][c] # Null
        THEN [player |-> board[r][c].player, type |-> board[r][c].type]
        ELSE Null]]

RECURSIVE serverClearCaptures(_, _)
serverClearCaptures(board, captures) ==
    IF Len(captures) = 0 THEN board
    ELSE serverClearCaptures([board EXCEPT ![Head(captures).row][Head(captures).col] = Null],
                             Tail(captures))

serverExecuteMove(board, move) ==
    LET newBoard == serverCloneBoard(board)
        piece == newBoard[move.from.row][move.from.col]
    IN  IF piece = Null THEN newBoard
        ELSE LET isPromotion == \/ (piece.player = "white" /\ move.to.row = 0)
                                \/ (piece.player = "black" /\ move.to.row = 7)
                 cleared == [serverClearCaptures(newBoard, move.captures)
                                EXCEPT ![move.from.row][move.from.col] = Null]
             IN  [cleared EXCEPT ![move.to.row][move.to.col] =
                     [piece EXCEPT !.type = IF isPromotion THEN "king" ELSE piece.type]]

serverCountCells(board, player) ==
    Cardinality({p \in Coords \X Coords : board[p[1]][p[2]].player = player})

serverCheckGameEnd(board, currentPlayer) ==
    LET whitePieces == serverCountCells(board, "white")
        blackPieces == serverCountCells(board, "black")
    IN  IF whitePieces = 0 THEN [ended |-> TRUE, winner |-> "black"]
        ELSE IF blackPieces = 0 THEN [ended |-> TRUE, winner |-> "white"]
        ELSE [ended |-> FALSE, winner |-> "none"]

\* Array.from(rooms.values()).filter(r => r.status === 'waiting').map(...)
availableRooms(rs) == {rid \in DOMAIN rs : rs[rid].status = "waiting"}

\* (the Room object inside a payload is left out: the events that carry one
\* also carry the fields read from it)
\* socket.emit / socket.to(roomId).emit / io.to(roomId).emit / io.emit
emitTo(c, ev, payload) == {[to |-> c, ev |-> ev, payload |-> payload]}
\* emitToOthers that echoes to the sender as well
emitToOthers_echo(members, c, ev, payload) ==
    {[to |-> d, ev |-> ev, payload |-> payload] : d \in members}
emitToOthers(members, c, ev, payload) ==
    {[to |-> d, ev |-> ev, payload |-> payload] : d \in members \ {c}}
emitToRoom(members, ev, payload) ==
    {[to |-> d, ev |-> ev, payload |-> payload] : d \in members}
emitAll(conn, ev, payload) ==
    {[to |-> d, ev |-> ev, payload |-> payload] : d \in conn}

NoPayload == [none |-> TRUE]

\* the Room object a pending game-start closure holds is the registry's object
\* while the Room is registered, and keeps its last contents afterwards
aliasTimers(ts, rs) ==
    [rid \in DOMAIN ts |-> IF rid \in DOMAIN rs THEN rs[rid] ELSE ts[rid]]

handled(ev, c, rid, move, applied, sent) ==
    [ev |-> ev, sender |-> c, roomId |-> rid, move |-> move,
     pre |-> IF rid \in DOMAIN rooms THEN rooms[rid] ELSE NoRoom,
     applied |-> applied, sent |-> sent]

\* socket.on('get-rooms')
GetRooms(c) ==
    /\ last.ev = "none"
    /\ eventsDone < MaxEvents
    /\ eventsDone' = eventsDone + 1
    /\ c \in connected
    /\ last' = handled("get-rooms", c, 0, NoMove, FALSE,
                       emitTo(c, "rooms-list", [list |-> availableRooms(rooms)]))
    /\ UNCHANGED <<rooms, joined, connected, timers, idsUsed, movesDone, lastAccepted>>

\* socket.on('create-room'); generateRoomId is taken to return an unused id
CreateRoom(c) ==
    /\ last.ev = "none"
    /\ eventsDone < MaxEvents
    /\ eventsDone' = eventsDone + 1
    /\ c \in connected
    /\ idsUsed < MaxRooms
    /\ LET roomId == idsUsed + 1
           room == [id |-> roomId, hostId |-> c, guestId |-> NoClient, status |-> "waiting",
                    board |-> serverCreateInitialBoard, currentPlayer |-> "white",
                    capturedWhite |-> 0, capturedBlack |-> 0]
           rs == [rid \in DOMAIN rooms \cup {roomId} |->
                     IF rid = roomId THEN room ELSE rooms[rid]]
       IN  /\ rooms' = rs
           /\ idsUsed' = roomId
           /\ joined' = [joined EXCEPT ![roomId] = @ \cup {c}]
           /\ last' = handled("create-room", c, roomId, NoMove, TRUE,
                         emitTo(c, "room-created", [roomId |-> roomId, color |-> "white"])
                         \cup emitAll(connected, "rooms-list", [list |-> availableRooms(rs)]))
    /\ UNCHANGED <<connected, timers, movesDone, lastAccepted>>

\* joinError without the status guard
joinError_noStatusGuard(rs, roomId) ==
    IF roomId \notin DOMAIN rs THEN "Sala nao encontrada"
    ELSE IF rs[roomId].guestId # NoClient THEN "Sala cheia"
    ELSE ""

\* the three guards of join-room; "" when the join goes through
joinError(rs, roomId) ==
    IF roomId \notin DOMAIN rs THEN "Sala nao encontrada"
    ELSE IF rs[roomId].status # "waiting" THEN "Essa sala ja esta em jogo"
    ELSE IF rs[roomId].guestId # NoClient THEN "Sala cheia"
    ELSE ""

\* socket.on('join-room')
JoinRoom(c, roomId) ==
    /\ last.ev = "none"
    /\ eventsDone < MaxEvents
    /\ eventsDone' = eventsDone + 1
    /\ c \in connected
    /\ IF joinError(rooms, roomId) # ""
       THEN /\ last' = handled("join-room", c, roomId, NoMove, FALSE,
                          emitTo(c, "room-error", [message |-> joinError(rooms, roomId)]))
            /\ UNCHANGED <<rooms, joined, timers>>
       ELSE LET room == [rooms[roomId] EXCEPT !.guestId = c, !.status = "playing"]
                rs == [rooms EXCEPT ![roomId] = room]
                members == joined[roomId] \cup {c}
            IN  /\ rooms' = rs
                /\ joined' = [joined EXCEPT ![roomId] = members]
                /\ timers' = [rid \in DOMAIN timers \cup {roomId} |->
                                 IF rid = roomId THEN room ELSE timers[rid]]
                /\ last' = handled("join-room", c, roomId, NoMove, TRUE,
                              emitTo(c, "room-joined", [roomId |-> roomId, color |-> "black"])
                              \cup emitToOthers(members, c, "player-joined", [roomId |-> roomId, guestId |-> c])
                              \cup emitAll(connected, "rooms-list", [list |-> availableRooms(rs)]))
    /\ UNCHANGED <<connected, idsUsed, movesDone, lastAccepted>>

\* the setTimeout callback of join-room
GameStartTimer(roomId) ==
    /\ last.ev = "none"
    /\ eventsDone < MaxEvents
    /\ eventsDone' = eventsDone + 1
    /\ roomId \in DOMAIN timers
    /\ timers' = [rid \in DOMAIN timers \ {roomId} |-> timers[rid]]
    /\ last' = handled("game-start-timer", NoClient, roomId, NoMove, TRUE,
                  emitToRoom(joined[roomId], "game-start",
                      [roomId |-> roomId, board |-> timers[roomId].board,
                       currentPlayer |-> timers[roomId].currentPlayer]))
    /\ UNCHANGED <<rooms, joined, connected, idsUsed, movesDone, lastAccepted>>

\* onMissingRoom that answers with an error
onMissingRoom_error(c) == emitTo(c, "room-error", [message |-> "Sala nao encontrada"])

\* `if (!room) return;` of make-move, leave-room and request-rematch: nothing is emitted
onMissingRoom(c) == {}

\* expectedPlayer that treats every sender as the host
expectedPlayer_alwaysWhite(room, socketId) == "white"

expectedPlayer(room, socketId) ==
    IF room.hostId = socketId THEN "white" ELSE "black"

\* the Room after the make-move handler's update
movedRoom(room, move) ==
    LET newBoard == serverExecuteMove(room.board, move)
        nextPlayer == getOpponent(room.currentPlayer)
        gameEnd == serverCheckGameEnd(newBoard, nextPlayer)
    IN  [room EXCEPT
            !.board = newBoard,
            !.currentPlayer = nextPlayer,
            !.capturedWhite = @ + (IF room.currentPlayer = "black" THEN Len(move.captures) ELSE 0),
            !.capturedBlack = @ + (IF room.currentPlayer = "white" THEN Len(move.captures) ELSE 0),
            !.status = IF gameEnd.ended THEN "ended" ELSE @]

\* moves a client may put in a make-move payload: what its own move generator
\* offers for the Room's position, and payloads written by hand
ForgedMoves ==
    { [from |-> Pos(5, 0), to |-> Pos(4, 1), captures |-> <<>>, isPromotion |-> FALSE],
      [from |-> Pos(5, 0), to |-> Pos(4, 1), captures |-> <<Pos(0, 1)>>, isPromotion |-> FALSE] }

generatedMoves(room) ==
    LET ms == getAllValidMoves(room.board, room.currentPlayer)
    IN  {ms[i] : i \in 1..Len(ms)}

ClientMoves(rs, roomId) ==
    ForgedMoves \cup (IF roomId \in DOMAIN rs THEN generatedMoves(rs[roomId]) ELSE {})

\* socket.on('make-move')
MakeMove(c, roomId, move) ==
    /\ last.ev = "none"
    /\ eventsDone < MaxEvents
    /\ eventsDone' = eventsDone + 1
    /\ c \in connected
    /\ IF roomId \notin DOMAIN rooms
       THEN /\ last' = handled("make-move", c, roomId, NoMove, FALSE, onMissingRoom(c))
            /\ UNCHANGED <<rooms, timers, movesDone, lastAccepted>>
       ELSE IF rooms[roomId].currentPlayer # expectedPlayer(rooms[roomId], c)
       THEN /\ last' = handled("make-move", c, roomId, NoMove, FALSE,
                          emitTo(c, "room-error", [message |-> "Nao e sua vez"]))
            /\ UNCHANGED <<rooms, timers, movesDone, lastAccepted>>
       ELSE LET room == movedRoom(rooms[roomId], move)
                rs == [rooms EXCEPT ![roomId] = room]
                gameEnd == serverCheckGameEnd(room.board, room.currentPlayer)
            IN  /\ movesDone < MaxMoves
                /\ rooms' = rs
                /\ timers' = aliasTimers(timers, rs)
                /\ movesDone' = movesDone + 1
                /\ lastAccepted' = [lastAccepted EXCEPT ![roomId] =
                                        [sender |-> c, side |-> rooms[roomId].currentPlayer]]
                /\ last' = handled("make-move", c, roomId, move, TRUE,
                              emitToOthers(joined[roomId], c, "move-made",
                                  [move |-> move, board |-> room.board,
                                   currentPlayer |-> room.currentPlayer,
                                   capturedWhite |-> room.capturedWhite,
                                   capturedBlack |-> room.capturedBlack,
                                   gameEnded |-> gameEnd.ended, winner |-> gameEnd.winner]))
    /\ UNCHANGED <<joined, connected, idsUsed>>

\* socket.on('leave-room')
LeaveRoom(c, roomId) ==
    /\ last.ev = "none"
    /\ eventsDone < MaxEvents
    /\ eventsDone' = eventsDone + 1
    /\ c \in connected
    /\ IF roomId \notin DOMAIN rooms
       THEN /\ last' = handled("leave-room", c, roomId, NoMove, FALSE, onMissingRoom(c))
            /\ UNCHANGED <<rooms, joined, lastAccepted>>
       ELSE LET rs == [rid \in DOMAIN rooms \ {roomId} |-> rooms[rid]]
                members == joined[roomId] \ {c}
            IN  /\ rooms' = rs
                /\ joined' = [joined EXCEPT ![roomId] = members]
                /\ lastAccepted' = [lastAccepted EXCEPT ![roomId] = NoAccepted]
                /\ last' = handled("leave-room", c, roomId, NoMove, TRUE,
                              emitToOthers(members, c, "player-left", NoPayload)
                              \cup emitAll(connected, "rooms-list", [list |-> availableRooms(rs)]))
    /\ UNCHANGED <<connected, timers, idsUsed, movesDone>>

\* socket.on('request-rematch')
RequestRematch(c, roomId) ==
    /\ last.ev = "none"
    /\ eventsDone < MaxEvents
    /\ eventsDone' = eventsDone + 1
    /\ c \in connected
    /\ IF roomId \notin DOMAIN rooms
       THEN /\ last' = handled("request-rematch", c, roomId, NoMove, FALSE, onMissingRoom(c))
            /\ UNCHANGED <<rooms, timers, lastAccepted>>
       ELSE LET room == [rooms[roomId] EXCEPT
                            !.board = serverCreateInitialBoard, !.currentPlayer = "white",
                            !.capturedWhite = 0, !.capturedBlack = 0, !.status = "playing"]
                rs == [rooms EXCEPT ![roomId] = room]
            IN  /\ rooms' = rs
                /\ timers' = aliasTimers(timers, rs)
                /\ lastAccepted' = [lastAccepted EXCEPT ![roomId] = NoAccepted]
                /\ last' = handled("request-rematch", c, roomId, NoMove, TRUE,
                              emitToRoom(joined[roomId], "rematch-accepted",
                                  [roomId |-> roomId, board |-> room.board,
                                   currentPlayer |-> room.currentPlayer]))
    /\ UNCHANGED <<joined, connected, idsUsed, movesDone>>

\* roomsOf that looks at hostId only
roomsOf_hostOnly(rs, socketId) ==
    {rid \in DOMAIN rs : rs[rid].hostId = socketId}

\* the Rooms the disconnect loop cleans up
roomsOf(rs, socketId) ==
    {rid \in DOMAIN rs : rs[rid].hostId = socketId \/ rs[rid].guestId = socketId}

\* socket.on('disconnect'): the socket has left every socket.io room by then
Disconnect(c) ==
    /\ last.ev = "none"
    /\ eventsDone < MaxEvents
    /\ eventsDone' = eventsDone + 1
    /\ c \in connected
    /\ LET mine == roomsOf(rooms, c)
           rs == [rid \in DOMAIN rooms \ mine |-> rooms[rid]]
           members == [rid \in RoomIds |-> joined[rid] \ {c}]
       IN  /\ rooms' = rs
           /\ joined' = members
           /\ connected' = connected \ {c}
           /\ lastAccepted' = [rid \in RoomIds |->
                                  IF rid \in mine THEN NoAccepted ELSE lastAccepted[rid]]
           /\ last' = handled("disconnect", c, 0, NoMove, TRUE,
                         UNION {emitToOthers(members[rid], c, "player-left", [roomId |-> rid]) : rid \in mine}
                         \cup emitAll(connected \ {c}, "rooms-list", [list |-> availableRooms(rs)]))
    /\ UNCHANGED <<timers, idsUsed, movesDone>>

NoEvent ==
    [ev |-> "none", sender |-> NoClient, roomId |-> 0, move |-> NoMove,
     pre |-> NoRoom, applied |-> FALSE, sent |-> {}]

\* the handler has returned and the messages it emitted have left the server;
\* the next inbound event is handled only then
Flush ==
    /\ last.ev # "none"
    /\ last' = NoEvent
    /\ UNCHANGED <<rooms, joined, connected, timers, idsUsed, movesDone, eventsDone, lastAccepted>>

CoordInit ==
    /\ rooms = << >>
    /\ joined = [rid \in RoomIds |-> {}]
    /\ connected = Clients
    /\ timers = << >>
    /\ idsUsed = 0
    /\ movesDone = 0
    /\ eventsDone = 0
    /\ lastAccepted = [rid \in RoomIds |-> NoAccepted]
    /\ last = NoEvent

\* ------------------------------------------------------------------------
\* Rules engine driven on bounded inputs: a board is set up from a pool of
\* placements, then the generator and the executor are called in turn.
\* ------------------------------------------------------------------------

\* nothing evaluated
NoResult == [ended |-> FALSE, winner |-> "unset"]

EndIdle ==
    /\ outEnd = NoResult

\* Math.random() was not called
NoRandom == [useRandom |-> FALSE, randomIndex |-> 0]

NoNode == [depth |-> 0, isMaximizing |-> FALSE]

AIIdle ==
    /\ aiDifficulty = "none"
    /\ aiRandom = NoRandom
    /\ outBest = NoMove
    /\ aiNode = NoNode
    /\ outScore = 0

\* store/gameStore.ts: initialState, with aiThinking as the store adds it
initialState ==
    [board |-> createInitialBoard,
     currentPlayer |-> "white",
     selectedPiece |-> NoPos,
     validMoves |-> <<>>,
     capturedWhite |-> 0,
     capturedBlack |-> 0,
     history |-> <<>>,
     historyIndex |-> -1,
     gameStatus |-> "menu",
     gameMode |-> "pvp",
     aiDifficulty |-> "medium",
     winner |-> "none",
     aiThinking |-> FALSE]

StoreIdle ==
    /\ store = initialState
    /\ pending = <<>>
    /\ storeMoves = 0

AuxIdle == EndIdle /\ AIIdle /\ StoreIdle

MaxSeedPieces == 4
MaxPlies == 1

\* candidate placements (dark squares; no pawn stands on its own farthest rank)
SeedPool ==
    << [pos |-> Pos(2, 3), piece |-> Piece("white", "pawn")],
       [pos |-> Pos(3, 4), piece |-> Piece("black", "pawn")],
       [pos |-> Pos(5, 4), piece |-> Piece("black", "pawn")],
       [pos |-> Pos(5, 6), piece |-> Piece("black", "pawn")],
       [pos |-> Pos(5, 2), piece |-> Piece("white", "pawn")],
       [pos |-> Pos(6, 3), piece |-> Piece("black", "pawn")],
       [pos |-> Pos(6, 5), piece |-> Piece("black", "pawn")],
       [pos |-> Pos(6, 1), piece |-> Piece("white", "pawn")],
       [pos |-> Pos(1, 0), piece |-> Piece("black", "pawn")],
       [pos |-> Pos(0, 1), piece |-> Piece("white", "king")],
       [pos |-> Pos(0, 7), piece |-> Piece("white", "king")],
       [pos |-> Pos(3, 2), piece |-> Piece("black", "king")] >>

RECURSIVE placeAll(_, _)
placeAll(board, S) ==
    IF S = {} THEN board
    ELSE LET i == CHOOSE x \in S : TRUE
         IN  placeAll(setPieceAt(board, SeedPool[i].pos, SeedPool[i].piece), S \ {i})

\* a white king on (0,1) with black pawns on the corners of a rectangle of diagonals
RectangleBoard ==
    setPieceAt(setPieceAt(setPieceAt(setPieceAt(setPieceAt(EmptyBoard,
        Pos(0, 1), Piece("white", "king")), Pos(1, 2), Piece("black", "pawn")),
        Pos(4, 3), Piece("black", "pawn")), Pos(4, 1), Piece("black", "pawn")),
        Pos(2, 1), Piece("black", "pawn"))

\* a white king on (0,7) facing two black pawns with no gap between them
StackedBoard ==
    setPieceAt(setPieceAt(setPieceAt(EmptyBoard,
        Pos(0, 7), Piece("white", "king")), Pos(3, 4), Piece("black", "pawn")),
        Pos(4, 3), Piece("black", "pawn"))

\* a white king alone on (0,0)
LoneKingBoard == setPieceAt(EmptyBoard, Pos(0, 0), Piece("white", "king"))

ScenarioBoards == {RectangleBoard, StackedBoard, LoneKingBoard}

SeedBoards ==
    {createInitialBoard} \cup ScenarioBoards \cup
    {placeAll(EmptyBoard, S) : S \in {T \in SUBSET (1..Len(SeedPool)) : Cardinality(T) <= MaxSeedPieces}}

InitEngine ==
    /\ inBoard \in SeedBoards
    /\ inPlayer \in {"white", "black"}
    /\ outMoves = <<>>
    /\ prevBoard = <<>>
    /\ lastMove = NoMove
    /\ plies = 0
    /\ pc = "input"
    /\ CoordInit
    /\ AuxIdle

\* a caller asks the move generator for the legal moves
Generate ==
    /\ pc = "input"
    /\ outMoves' = getAllValidMoves(inBoard, inPlayer)
    /\ pc' = "moves"
    /\ UNCHANGED <<inBoard, inPlayer, prevBoard, lastMove, plies>>
    /\ UNCHANGED <<coordVars, auxVars>>

\* a caller applies one of the generated moves and hands the turn over
Execute(i) ==
    /\ pc = "moves"
    /\ plies < MaxPlies
    /\ i \in 1..Len(outMoves)
    /\ prevBoard' = inBoard
    /\ lastMove' = outMoves[i]
    /\ inBoard' = executeMove(inBoard, outMoves[i])
    /\ inPlayer' = getOpponent(inPlayer)
    /\ outMoves' = <<>>
    /\ plies' = plies + 1
    /\ pc' = "input"
    /\ UNCHANGED <<coordVars, auxVars>>

\* a caller applies the move it has just applied once more, to the board that
\* came back (a stale move: its origin square is empty by then)
Replay ==
    /\ pc = "input"
    /\ lastMove # NoMove
    /\ prevBoard' = inBoard
    /\ inBoard' = executeMove(inBoard, lastMove)
    /\ pc' = "replayed"
    /\ UNCHANGED <<inPlayer, outMoves, lastMove, plies>>
    /\ UNCHANGED <<coordVars, auxVars>>

NextEngine ==
    \/ Generate
    \/ \E i \in 1..12 : Execute(i)
    \/ Replay

vars == <<engineVars, coordVars, auxVars>>

SpecEngine == InitEngine /\ [][NextEngine]_vars

\* ------------------------------------------------------------------------
\* Properties of the move generator
\* ------------------------------------------------------------------------

Squares == {Pos(r, c) : r \in Coords, c \in Coords}

step(pos, dir, k) == Pos(pos.row + dir.row * k, pos.col + dir.col * k)

isEnemyAt(board, pos, piece) ==
    getPieceAt(board, pos) # Null /\ getPieceAt(board, pos).player # piece.player

isEmptyAt(board, pos) == isValidPosition(pos) /\ getPieceAt(board, pos) = Null

\* the single jumps the rules give the piece standing on pos: <<captured square, landing>>
jumpsOf(board, pos, piece) ==
    IF piece.type = "pawn"
    THEN {<<step(pos, DIRECTIONS[d], 1), step(pos, DIRECTIONS[d], 2)>> : d \in
            {e \in 1..4 : /\ isEnemyAt(board, step(pos, DIRECTIONS[e], 1), piece)
                          /\ isEmptyAt(board, step(pos, DIRECTIONS[e], 2))}}
    ELSE UNION {{<<step(pos, DIRECTIONS[d], k), step(pos, DIRECTIONS[d], l)>> : l \in
                   {m \in (k + 1)..BOARD_SIZE :
                       \A j \in (k + 1)..m : isEmptyAt(board, step(pos, DIRECTIONS[d], j))}} :
                <<d, k>> \in {x \in (1..4) \X (1..BOARD_SIZE) :
                    /\ isEnemyAt(board, step(pos, DIRECTIONS[x[1]], x[2]), piece)
                    /\ \A j \in 1..(x[2] - 1) : isEmptyAt(board, step(pos, DIRECTIONS[x[1]], j))}}

landedPiece(piece, land) ==
    IF piece.type = "pawn" /\ land.row = (IF piece.player = "white" THEN BOARD_SIZE - 1 ELSE 0)
    THEN Piece(piece.player, "king") ELSE piece

afterJump(board, pos, piece, j) ==
    [r \in Coords |-> [c \in Coords |->
        IF Pos(r, c) = j[2] THEN landedPiece(piece, j[2])
        ELSE IF Pos(r, c) = pos \/ Pos(r, c) = j[1] THEN Null
        ELSE board[r][c]]]

\* the number of pieces taken by the longest chain of jumps open to the piece on pos
RECURSIVE longestChain(_, _, _)
longestChain(board, pos, piece) ==
    LET js == jumpsOf(board, pos, piece)
    IN  IF js = {} THEN 0
        ELSE 1 + Max({longestChain(afterJump(board, pos, piece, j), j[2],
                                   landedPiece(piece, j[2])) : j \in js})

piecesOf(board, player) == {p \in Squares : getPieceAt(board, p).player = player}

captureExists(board, player) ==
    \E p \in piecesOf(board, player) : jumpsOf(board, p, getPieceAt(board, p)) # {}

Range(seq) == {seq[i] : i \in 1..Len(seq)}

ScenarioC1Board ==
    setPieceAt(setPieceAt(EmptyBoard, Pos(2, 3), Piece("white", "pawn")),
               Pos(3, 4), Piece("black", "pawn"))

\* C1 - mandatory capture: whenever some piece of the player can capture, the list
\* returned by getAllValidMoves holds no move with an empty captures list; for the
\* lone white pawn on (2,3) facing a black pawn on (3,4) the list is exactly the
\* capture landing on (4,5) that removes (3,4).
C1_MandatoryCapture ==
    pc = "moves" =>
        /\ captureExists(inBoard, inPlayer) =>
               \A i \in 1..Len(outMoves) : Len(outMoves[i].captures) > 0
        /\ (inBoard = ScenarioC1Board /\ inPlayer = "white") =>
               outMoves = << [from |-> Pos(2, 3), to |-> Pos(4, 5),
                              captures |-> <<Pos(3, 4)>>, isPromotion |-> FALSE] >>

\* a capture exists while another piece of the player has a quiet step open
C1_Witness ==
    /\ pc = "moves"
    /\ captureExists(inBoard, inPlayer)
    /\ Len(outMoves) > 0
    /\ \E p \in piecesOf(inBoard, inPlayer) :
          /\ jumpsOf(inBoard, p, getPieceAt(inBoard, p)) = {}
          /\ Len(getNonCaptureMovesForPiece(inBoard, p, getPieceAt(inBoard, p))) > 0

allChains(board, player) ==
    UNION {Range(getCapturesForPiece(board, p, getPieceAt(board, p), <<>>)) :
           p \in piecesOf(board, player)}

globalLongest(board, player) ==
    Max({longestChain(board, p, getPieceAt(board, p)) : p \in piecesOf(board, player)})

\* C2 - maximal capture: the moves returned by getAllValidMoves all have the same
\* captures length; when a capture exists that length is the longest chain open to
\* any piece of the player, and every chain of that length is in the list.
C2_MaximalCapture ==
    pc = "moves" =>
        /\ \A i, j \in 1..Len(outMoves) :
               Len(outMoves[i].captures) = Len(outMoves[j].captures)
        /\ captureExists(inBoard, inPlayer) =>
               LET longest == globalLongest(inBoard, inPlayer)
               IN  /\ Len(outMoves) > 0
                   /\ \A i \in 1..Len(outMoves) : Len(outMoves[i].captures) = longest
                   /\ \A ch \in allChains(inBoard, inPlayer) :
                          Len(ch.captures) = longest => ch \in Range(outMoves)

\* two pieces of the player can capture, one of them fewer pieces than the other
C2_Witness ==
    /\ pc = "moves"
    /\ Len(outMoves) > 0
    /\ \E p, q \in piecesOf(inBoard, inPlayer) :
          /\ longestChain(inBoard, p, getPieceAt(inBoard, p)) > 0
          /\ longestChain(inBoard, q, getPieceAt(inBoard, q))
                 > longestChain(inBoard, p, getPieceAt(inBoard, p))

\* ------------------------------------------------------------------------
\* The session coordinator: sockets send events, one handler runs at a time
\* ------------------------------------------------------------------------

EngineIdle ==
    /\ inBoard = <<>>
    /\ inPlayer = "white"
    /\ outMoves = <<>>
    /\ prevBoard = <<>>
    /\ lastMove = NoMove
    /\ plies = 0
    /\ pc = "idle"

Init == EngineIdle /\ CoordInit /\ AuxIdle

Next ==
    \/ \E c \in Clients : GetRooms(c) /\ UNCHANGED <<engineVars, auxVars>>
    \/ \E c \in Clients : CreateRoom(c) /\ UNCHANGED <<engineVars, auxVars>>
    \/ \E c \in Clients, roomId \in RoomIds : JoinRoom(c, roomId) /\ UNCHANGED <<engineVars, auxVars>>
    \/ \E roomId \in RoomIds : GameStartTimer(roomId) /\ UNCHANGED <<engineVars, auxVars>>
    \/ \E c \in connected, roomId \in RoomIds :
            /\ last.ev = "none"
            /\ \E move \in ClientMoves(rooms, roomId) : MakeMove(c, roomId, move)
            /\ UNCHANGED <<engineVars, auxVars>>
    \/ \E c \in Clients, roomId \in RoomIds : LeaveRoom(c, roomId) /\ UNCHANGED <<engineVars, auxVars>>
    \/ \E c \in Clients, roomId \in RoomIds : RequestRematch(c, roomId) /\ UNCHANGED <<engineVars, auxVars>>
    \/ \E c \in Clients : Disconnect(c) /\ UNCHANGED <<engineVars, auxVars>>
    \/ Flush /\ UNCHANGED <<engineVars, auxVars>>

Spec == Init /\ [][Next]_vars

\* ------------------------------------------------------------------------
\* Properties of the session coordinator
\* ------------------------------------------------------------------------

\* the Room the event named, as the handler left it (NoRoom if it is not registered)
postRoom == IF last.roomId \in DOMAIN rooms THEN rooms[last.roomId] ELSE NoRoom

\* the fixed color of a participant: host = white, guest = black
participantColor(room, c) ==
    IF c = room.hostId THEN "white" ELSE IF c = room.guestId THEN "black" ELSE "none"

onlyErrorToSender ==
    /\ last.sent # {}
    /\ \A m \in last.sent : m.to = last.sender /\ m.ev = "room-error"

\* C3 - wrong-turn rejection: a make-move from the participant whose color is not
\* the Room's side to move leaves the Room as it was, and the only message emitted
\* is an error to the sender.
C3_WrongTurnRejected ==
    ( /\ last.ev = "make-move"
      /\ last.pre # NoRoom
      /\ participantColor(last.pre, last.sender) \in {"white", "black"}
      /\ participantColor(last.pre, last.sender) # last.pre.currentPlayer )
    => /\ postRoom = last.pre
       /\ onlyErrorToSender

\* the guest moved on the untouched starting board, before any white move
C3_Witness ==
    /\ last.ev = "make-move"
    /\ last.pre # NoRoom
    /\ last.sender = last.pre.guestId
    /\ last.sender # last.pre.hostId
    /\ last.pre.status = "playing"
    /\ last.pre.currentPlayer = "white"
    /\ last.pre.board = serverCreateInitialBoard
    /\ movesDone = 0
    /\ onlyErrorToSender

\* C4 - a make-move received while the Room is waiting or ended is never applied:
\* the Room is unchanged and no move-made is emitted.
C4_MoveOnlyWhilePlaying ==
    ( /\ last.ev = "make-move"
      /\ last.pre # NoRoom
      /\ last.pre.status \in {"waiting", "ended"} )
    => /\ postRoom = last.pre
       /\ \A m \in last.sent : m.ev # "move-made"

\* C5 - every move the coordinator applies to a playing Room is in the move
\* generator's legal set for the Room's board and side to move.
C5_AppliedMovesAreLegal ==
    ( /\ last.ev = "make-move"
      /\ last.pre.status = "playing"
      /\ postRoom # last.pre )
    => last.move \in generatedMoves(last.pre)

\* C6 - for a move produced by the move generator and accepted in a playing Room,
\* the board the coordinator stores equals the rules engine's executeMove(board, move).
C6_StoredBoardIsExecuteMove ==
    ( /\ last.ev = "make-move"
      /\ last.pre.status = "playing"
      /\ last.applied
      /\ last.move \in generatedMoves(last.pre) )
    => postRoom.board = executeMove(last.pre.board, last.move)

\* C7 - after a move accepted in a playing Room the Room is ended, and the broadcast says ended with
\* the mover as winner, whenever the new side to move has no pieces or no legal
\* move; otherwise the Room is playing.
C7_CoordinatorGameEnd ==
    ( /\ last.ev = "make-move"
      /\ last.pre.status = "playing"
      /\ last.applied )
    => IF \/ countPieces(postRoom.board, postRoom.currentPlayer) = 0
          \/ Len(getAllValidMoves(postRoom.board, postRoom.currentPlayer)) = 0
       THEN /\ postRoom.status = "ended"
            /\ \A m \in last.sent : m.ev = "move-made" =>
                   m.payload.gameEnded /\ m.payload.winner = last.pre.currentPlayer
       ELSE postRoom.status = "playing"

\* C8 - the board a Room holds on create and after rematch is the starting position
\* of the board model, on which white has a legal move.
C8_RoomStartsOnEngineBoard ==
    ( /\ last.ev \in {"create-room", "request-rematch"}
      /\ last.applied )
    => /\ postRoom.board = createInitialBoard
       /\ Len(getAllValidMoves(postRoom.board, "white")) > 0

\* C9 - the game-start event that follows a join carries the untouched starting
\* board with white to move, whatever was handled for the Room in between.
C9_GameStartCarriesStart ==
    last.ev = "game-start-timer" =>
        \A m \in last.sent : m.ev = "game-start" =>
            /\ m.payload.board = serverCreateInitialBoard
            /\ m.payload.currentPlayer = "white"

joinable(room) == room # NoRoom /\ room.status = "waiting" /\ room.guestId = NoClient

\* C10 - join guard: a join on a registered, waiting Room without guest makes the
\* sender the guest (black) and the Room playing; any other join leaves the Room
\* as it was and emits only an error to the sender.
C10_JoinGuard ==
    last.ev = "join-room" =>
        IF joinable(last.pre)
        THEN /\ postRoom = [last.pre EXCEPT !.guestId = last.sender, !.status = "playing"]
             /\ [to |-> last.sender, ev |-> "room-joined",
                 payload |-> [roomId |-> last.roomId, color |-> "black"]] \in last.sent
        ELSE /\ postRoom = last.pre
             /\ onlyErrorToSender

\* a join on a Room that is already playing is turned down
C10_Witness ==
    /\ last.ev = "join-room"
    /\ last.pre # NoRoom
    /\ last.pre.status = "playing"
    /\ last.pre.guestId # NoClient
    /\ last.sender \notin {last.pre.hostId, last.pre.guestId}
    /\ onlyErrorToSender

\* the participants of a Room other than c
othersIn(room, c) == {room.hostId, room.guestId} \ {NoClient, c}

hasMessage(sent, d, ev) == \E m \in sent : m.to = d /\ m.ev = ev

bothAttached(room) == room # NoRoom /\ room.hostId # NoClient /\ room.guestId # NoClient

\* C12 - a rematch request on a Room with host and guest attached resets the Room
\* (starting board, white to move, both capture counts zero, status playing) and
\* both participants receive rematch-accepted with that board and side to move;
\* on a Room without a guest it changes nothing and nobody receives rematch-accepted.
C12_RematchNeedsBothAttached ==
    ( /\ last.ev = "request-rematch"
      /\ last.pre # NoRoom )
    => IF bothAttached(last.pre)
       THEN /\ postRoom = [last.pre EXCEPT
                              !.board = serverCreateInitialBoard, !.currentPlayer = "white",
                              !.capturedWhite = 0, !.capturedBlack = 0, !.status = "playing"]
            /\ \A d \in {last.pre.hostId, last.pre.guestId} :
                   [to |-> d, ev |-> "rematch-accepted",
                    payload |-> [roomId |-> last.roomId, board |-> serverCreateInitialBoard,
                                 currentPlayer |-> "white"]] \in last.sent
       ELSE /\ postRoom = last.pre
            /\ \A m \in last.sent : m.ev # "rematch-accepted"

\* C13 - in every registry state a Room that is playing or ended has a guest
\* attached, and a Room without a guest is waiting and listed as open.
C13_StatusMatchesGuest ==
    \A rid \in DOMAIN rooms :
        /\ rooms[rid].status \in {"playing", "ended"} => rooms[rid].guestId # NoClient
        /\ rooms[rid].guestId = NoClient =>
               /\ rooms[rid].status = "waiting"
               /\ rid \in availableRooms(rooms)

roomsListTo(d, rs) == [to |-> d, ev |-> "rooms-list", payload |-> [list |-> availableRooms(rs)]]

\* C14 - open-room directory: a handled event that changes the set of waiting
\* Rooms broadcasts to every connected client a rooms-list that is exactly the
\* set of Rooms now waiting; get-rooms is answered to the requester with that set.
C14_DirectoryBroadcast ==
    [][ /\ availableRooms(rooms') # availableRooms(rooms)
           => \A d \in connected' : roomsListTo(d, rooms') \in last'.sent
        /\ last'.ev = "get-rooms"
           => roomsListTo(last'.sender, rooms') \in last'.sent
      ]_vars

\* the sender is one of two distinct participants of a playing Room
twoPlayerMove ==
    /\ last.ev = "make-move"
    /\ last.applied
    /\ last.pre.status = "playing"
    /\ bothAttached(last.pre)
    /\ last.pre.hostId # last.pre.guestId
    /\ last.sender \in {last.pre.hostId, last.pre.guestId}

moveMadeSent == {m \in last.sent : m.ev = "move-made"}

C16_MissingRoomIsSilent ==
    [][ ( /\ last'.ev \in {"make-move", "leave-room", "request-rematch"}
          /\ last'.roomId \notin DOMAIN rooms )
        => /\ rooms' = rooms
           /\ joined' = joined
           /\ timers' = timers
           /\ connected' = connected
           /\ last'.sent = {}
      ]_vars

\* a move arrived for a Room that had been registered and was cleaned up
C16_Witness ==
    /\ last.ev = "make-move"
    /\ last.roomId \in 1..idsUsed
    /\ last.roomId \notin DOMAIN rooms
    /\ last.pre = NoRoom
    /\ last.sent = {}

\* ------------------------------------------------------------------------
\* The client's replica of an online match (game store)
\* ------------------------------------------------------------------------

\* the part of the store an online match reads and writes; the history entry
\* pushed alongside repeats board, currentPlayer and the two counts
replicaOf(room) ==
    [board |-> room.board, currentPlayer |-> room.currentPlayer,
     capturedWhite |-> room.capturedWhite, capturedBlack |-> room.capturedBlack,
     gameStatus |-> "playing", winner |-> "none"]

\* the optimistic local update of the sender
makeOnlineMove(state, move) ==
    LET newBoard == executeMove(state.board, move)
        nextPlayer == getOpponent(state.currentPlayer)
        newCapturedWhite == state.capturedWhite +
            (IF state.currentPlayer = "black" THEN Len(move.captures) ELSE 0)
        newCapturedBlack == state.capturedBlack +
            (IF state.currentPlayer = "white" THEN Len(move.captures) ELSE 0)
        gameEnd == checkGameEnd(newBoard, nextPlayer)
    IN  [board |-> newBoard, currentPlayer |-> nextPlayer,
         capturedWhite |-> newCapturedWhite, capturedBlack |-> newCapturedBlack,
         gameStatus |-> IF gameEnd.ended THEN "ended" ELSE "playing",
         winner |-> gameEnd.winner]

\* the opponent's update from a move-made payload
receiveOnlineMove(state, payload) ==
    [board |-> cloneBoard(payload.board), currentPlayer |-> payload.currentPlayer,
     capturedWhite |-> payload.capturedWhite, capturedBlack |-> payload.capturedBlack,
     gameStatus |-> IF payload.gameEnded THEN "ended" ELSE "playing",
     winner |-> payload.winner]

\* C17 - replicas agree after each move: when both replicas hold the Room's state
\* and a participant plays a move its move generator offers, the sender's
\* optimistic state (board, side to move, capture counts, ended flag, winner)
\* equals what the Room stores and what the opponent builds from move-made.
C17_ReplicasAgree ==
    ( twoPlayerMove /\ last.move \in generatedMoves(last.pre) )
    => LET local == makeOnlineMove(replicaOf(last.pre), last.move)
       IN  /\ local.board = postRoom.board
           /\ local.currentPlayer = postRoom.currentPlayer
           /\ local.capturedWhite = postRoom.capturedWhite
           /\ local.capturedBlack = postRoom.capturedBlack
           /\ (local.gameStatus = "ended") = (postRoom.status = "ended")
           /\ \A m \in moveMadeSent :
                  receiveOnlineMove(replicaOf(last.pre), m.payload) = local

\* C18 - turn alternation: an accepted move flips the Room's side to move; the
\* side to move changes in no other way except a rematch; an accepted move is
\* for the side opposite to the previous accepted move of the Room since its
\* creation or last rematch, and comes from another sender, so the same
\* participant's move is never applied twice in a row.
C18_TurnsAlternate ==
    [][ /\ ( last'.ev = "make-move" /\ last'.applied )
           => /\ rooms'[last'.roomId].currentPlayer
                     = getOpponent(rooms[last'.roomId].currentPlayer)
              /\ rooms'[last'.roomId].currentPlayer # rooms[last'.roomId].currentPlayer
              /\ lastAccepted[last'.roomId] # NoAccepted
                 => /\ rooms[last'.roomId].currentPlayer # lastAccepted[last'.roomId].side
                    /\ last'.sender # lastAccepted[last'.roomId].sender
        /\ \A rid \in DOMAIN rooms \cap DOMAIN rooms' :
               rooms'[rid].currentPlayer # rooms[rid].currentPlayer
               => /\ last'.roomId = rid
                  /\ \/ last'.ev = "make-move" /\ last'.applied
                     \/ last'.ev = "request-rematch"
      ]_vars

\* a participant sent a second move right after its own accepted move and was turned down
C18_Witness ==
    /\ last.ev = "make-move"
    /\ last.pre # NoRoom
    /\ ~last.applied
    /\ lastAccepted[last.roomId].sender = last.sender
    /\ last.pre.currentPlayer # lastAccepted[last.roomId].side
    /\ postRoom = last.pre
    /\ onlyErrorToSender

\* ------------------------------------------------------------------------
\* executeMove on references: a board is an array of row arrays whose cells
\* point to piece objects, so that sharing and in-place writes are visible
\* ------------------------------------------------------------------------

NumCells == BOARD_SIZE * BOARD_SIZE

\* the caller's board: row arrays 0..7, piece objects 1..64
InputRef == [r \in Coords |-> r]

\* the object `{ ...piece, type: 'king' }` allocates
PromotedObj == 2 * NumCells + 1

heapOf(board) ==
    [rows |-> [i \in 0..(2 * BOARD_SIZE - 1) |-> [c \in Coords |->
                  IF i < BOARD_SIZE /\ board[i][c] # Null THEN i * BOARD_SIZE + c + 1 ELSE 0]],
     objs |-> [k \in 1..PromotedObj |->
                  IF k <= NumCells THEN board[(k - 1) \div BOARD_SIZE][(k - 1) % BOARD_SIZE]
                  ELSE Null]]

\* the board value a reference denotes
boardValue(heap, ref) ==
    [r \in Coords |-> [c \in Coords |->
        IF heap.rows[ref[r]][c] = 0 THEN Null ELSE heap.objs[heap.rows[ref[r]][c]]]]

\* cloneBoardRef that copies the outer array only: `[...board]`
cloneBoardRef_shallow(heap, ref) ==
    [heap |-> heap, ref |-> ref]

\* board.map(row => row.map(piece => (piece ? { ...piece } : null))):
\* fresh row arrays 8..15 and a fresh object for every piece
cloneBoardRef(heap, ref) ==
    LET fresh(r, c) == NumCells + r * BOARD_SIZE + c + 1
    IN  [heap |->
            [rows |-> [i \in 0..(2 * BOARD_SIZE - 1) |->
                          IF i < BOARD_SIZE THEN heap.rows[i]
                          ELSE [c \in Coords |->
                                   IF heap.rows[ref[i - BOARD_SIZE]][c] # 0
                                   THEN fresh(i - BOARD_SIZE, c) ELSE 0]],
             objs |-> [k \in 1..PromotedObj |->
                          IF k > NumCells /\ k <= 2 * NumCells
                          THEN LET r == (k - NumCells - 1) \div BOARD_SIZE
                                   c == (k - NumCells - 1) % BOARD_SIZE
                               IN  IF heap.rows[ref[r]][c] # 0
                                   THEN [player |-> heap.objs[heap.rows[ref[r]][c]].player,
                                         type |-> heap.objs[heap.rows[ref[r]][c]].type]
                                   ELSE Null
                          ELSE heap.objs[k]]],
         ref |-> [r \in Coords |-> BOARD_SIZE + r]]

getPieceAtRef(heap, ref, pos) ==
    IF ~isValidPosition(pos) THEN 0 ELSE heap.rows[ref[pos.row]][pos.col]

setPieceAtRef(heap, ref, pos, obj) ==
    IF isValidPosition(pos)
    THEN [heap EXCEPT !.rows[ref[pos.row]][pos.col] = obj]
    ELSE heap

RECURSIVE clearAllRef(_, _, _)
clearAllRef(heap, ref, ps) ==
    IF Len(ps) = 0 THEN heap
    ELSE clearAllRef(setPieceAtRef(heap, ref, Head(ps), 0), ref, Tail(ps))

executeMoveRef(heap, ref, move) ==
    LET cloned == cloneBoardRef(heap, ref)
        piece == getPieceAtRef(cloned.heap, cloned.ref, move.from)
    IN  IF piece = 0 THEN cloned
        ELSE LET cleared == clearAllRef(setPieceAtRef(cloned.heap, cloned.ref, move.from, 0),
                                        cloned.ref, move.captures)
                 promoted == [cleared EXCEPT !.objs[PromotedObj] =
                                 [cleared.objs[piece] EXCEPT !.type = "king"]]
             IN  IF move.isPromotion
                 THEN [heap |-> setPieceAtRef(promoted, cloned.ref, move.to, PromotedObj),
                       ref |-> cloned.ref]
                 ELSE [heap |-> setPieceAtRef(cleared, cloned.ref, move.to, piece),
                       ref |-> cloned.ref]

\* C19 - executeMove is pure and deterministic: after the call the caller's board
\* denotes the same value as before, piece by piece; the board returned is the
\* same for the same (board, move), whichever way the call is carried out; and
\* when move.from holds no piece the board returned equals the input board.
C19_ExecuteMovePure ==
    ( pc \in {"input", "replayed"} /\ lastMove # NoMove )
    => LET call == executeMoveRef(heapOf(prevBoard), InputRef, lastMove)
       IN  /\ boardValue(call.heap, InputRef) = prevBoard
           /\ boardValue(call.heap, call.ref) = inBoard
           /\ inBoard = executeMove(prevBoard, lastMove)
           /\ getPieceAt(prevBoard, lastMove.from) = Null => inBoard = prevBoard

\* a capture was applied a second time, to a board whose origin square is empty
C19_Witness ==
    /\ pc = "replayed"
    /\ Len(lastMove.captures) > 0
    /\ getPieceAt(prevBoard, lastMove.from) = Null
    /\ getPieceAt(prevBoard, lastMove.to) # Null
    /\ inBoard = prevBoard

\* C20 - piece count: executing a move of getAllValidMoves(board, player) leaves
\* the mover's piece count unchanged and lowers the opponent's by exactly
\* len(move.captures), so the total drops by len(move.captures) and never grows.
C20_PieceCount ==
    ( pc = "input" /\ lastMove # NoMove )
    => LET mover == getOpponent(inPlayer)
           moverBefore == countPieces(prevBoard, mover)
           moverAfter == countPieces(inBoard, mover)
           otherBefore == countPieces(prevBoard, inPlayer)
           otherAfter == countPieces(inBoard, inPlayer)
       IN  /\ moverAfter = moverBefore
           /\ otherAfter = otherBefore - Len(lastMove.captures)
           /\ moverAfter + otherAfter = moverBefore + otherBefore - Len(lastMove.captures)
           /\ moverAfter + otherAfter <= moverBefore + otherBefore

\* a chain that took two pieces was executed
C20_Witness ==
    /\ pc = "input"
    /\ lastMove # NoMove
    /\ Len(lastMove.captures) >= 2
    /\ countPieces(inBoard, inPlayer) = countPieces(prevBoard, inPlayer) - 2

\* ------------------------------------------------------------------------
\* More properties of the move generator and the executor
\* ------------------------------------------------------------------------

farthestRank(player) == IF player = "white" THEN BOARD_SIZE - 1 ELSE 0

\* where a pawn stands after its j-th jump: each jump lands one square past the piece taken
RECURSIVE pawnLanding(_, _, _)
pawnLanding(from, captures, j) ==
    IF j = 0 THEN from
    ELSE LET before == pawnLanding(from, captures, j - 1)
         IN  Pos(2 * captures[j].row - before.row, 2 * captures[j].col - before.col)

\* the pawn's step ends on its farthest rank, or one of its jumps lands there
reachesFarthestRank(move, player) ==
    IF Len(move.captures) = 0 THEN move.to.row = farthestRank(player)
    ELSE \E j \in 1..Len(move.captures) :
             pawnLanding(move.from, move.captures, j).row = farthestRank(player)

\* C21 - promotion flag, as stated: a generated move has isPromotion set exactly
\* when the moved piece is a pawn and move.to is on that pawn's farthest rank.
C21_PromotionIffToOnFarthestRank ==
    pc = "moves" =>
        \A i \in 1..Len(outMoves) :
            outMoves[i].isPromotion
                = ( /\ getPieceAt(inBoard, outMoves[i].from).type = "pawn"
                    /\ outMoves[i].to.row = farthestRank(inPlayer) )

\* C21 (amended) - a generated move has isPromotion set exactly when the moved
\* piece is a pawn and its step, or any jump of its chain, lands on the pawn's
\* farthest rank; a chain that goes on from that rank as a king keeps the flag
\* although move.to may be elsewhere; a king's move never sets it.
C21_PromotionIffReachesFarthestRank ==
    pc = "moves" =>
        \A i \in 1..Len(outMoves) :
            /\ outMoves[i].isPromotion
                   = ( /\ getPieceAt(inBoard, outMoves[i].from).type = "pawn"
                       /\ reachesFarthestRank(outMoves[i], inPlayer) )
            /\ ( /\ getPieceAt(inBoard, outMoves[i].from).type = "pawn"
                 /\ outMoves[i].to.row = farthestRank(inPlayer) )
               => outMoves[i].isPromotion

\* a pawn's chain passed its farthest rank and ended on another rank, flag set
C21_Witness ==
    /\ pc = "moves"
    /\ \E i \in 1..Len(outMoves) :
          /\ outMoves[i].isPromotion
          /\ getPieceAt(inBoard, outMoves[i].from).type = "pawn"
          /\ outMoves[i].to.row # farthestRank(inPlayer)
          /\ Len(outMoves[i].captures) >= 2

\* ------------------------------------------------------------------------
\* The game-end evaluator called on bounded inputs
\* ------------------------------------------------------------------------

\* a caller asks whether the game is over for the side to move
CheckEnd ==
    /\ pc = "input"
    /\ outEnd' = checkGameEnd(inBoard, inPlayer)
    /\ pc' = "checked"
    /\ UNCHANGED <<inBoard, inPlayer, outMoves, prevBoard, lastMove, plies>>
    /\ UNCHANGED <<coordVars, aiVars, storeVars>>

NextEnd == CheckEnd

SpecEnd == InitEngine /\ [][NextEnd]_vars

DIFFICULTY_DEPTH == [easy |-> 2, medium |-> 4, hard |-> 6]

PAWN_VALUE == 100
KING_VALUE == 300

POSITION_BONUS ==
    << <<0, 0, 0, 0, 0, 0, 0, 0>>,
       <<0, 5, 0, 5, 0, 5, 0, 5>>,
       <<5, 0, 10, 0, 10, 0, 5, 0>>,
       <<0, 10, 0, 15, 0, 10, 0, 5>>,
       <<5, 0, 10, 0, 15, 0, 10, 0>>,
       <<0, 5, 0, 10, 0, 10, 0, 5>>,
       <<5, 0, 5, 0, 5, 0, 5, 0>>,
       <<0, 0, 0, 0, 0, 0, 0, 0>> >>

\* Infinity: above every score the search can produce
Infinity == 1000000

Max2(a, b) == IF a >= b THEN a ELSE b
Min2(a, b) == IF a <= b THEN a ELSE b

\* what one square adds to the score of evaluateBoard
totalValue(board, row, col, aiPlayer) ==
    LET piece == board[row][col]
        pieceValue == IF piece.type = "king" THEN KING_VALUE ELSE PAWN_VALUE
        positionBonus == POSITION_BONUS[row + 1][col + 1]
        advancementBonus ==
            IF piece.type = "pawn"
            THEN IF piece.player = "white" THEN row * 5 ELSE (BOARD_SIZE - 1 - row) * 5
            ELSE 0
    IN  IF piece = Null THEN 0
        ELSE IF piece.player = aiPlayer
             THEN pieceValue + positionBonus + advancementBonus
             ELSE 0 - (pieceValue + positionBonus + advancementBonus)

RECURSIVE sumSquares(_, _, _)
sumSquares(board, aiPlayer, i) ==
    IF i > BOARD_SIZE * BOARD_SIZE THEN 0
    ELSE totalValue(board, AllPositions[i].row, AllPositions[i].col, aiPlayer)
            + sumSquares(board, aiPlayer, i + 1)

evaluateBoard(board, aiPlayer) ==
    LET opponent == getOpponent(aiPlayer)
        aiMoves == Len(getAllValidMoves(board, aiPlayer))
        opponentMoves == Len(getAllValidMoves(board, opponent))
    IN  sumSquares(board, aiPlayer, 1) + (aiMoves - opponentMoves) * 5

\* the score of a node whose side to move has no legal move
terminalScore(depth, isMaximizing) ==
    IF isMaximizing THEN 0 - 10000 + depth ELSE 10000 - depth

RECURSIVE minimax(_, _, _, _, _, _, _)
RECURSIVE maxLoop(_, _, _, _, _, _, _, _, _)
RECURSIVE minLoop(_, _, _, _, _, _, _, _, _)

\* the body of the maximizing branch's loop once move i is scored
maxStep(board, moves, i, depth, alpha, beta, aiPlayer, currentPlayer, maxEval, evaluation) ==
    IF beta <= Max2(alpha, evaluation) THEN Max2(maxEval, evaluation)
    ELSE maxLoop(board, moves, i + 1, depth, Max2(alpha, evaluation), beta, aiPlayer,
                 currentPlayer, Max2(maxEval, evaluation))

\* the for loop of the maximizing branch, from move i on
maxLoop(board, moves, i, depth, alpha, beta, aiPlayer, currentPlayer, maxEval) ==
    IF i > Len(moves) THEN maxEval
    ELSE maxStep(board, moves, i, depth, alpha, beta, aiPlayer, currentPlayer, maxEval,
                 minimax(executeMove(board, moves[i]), depth - 1, alpha, beta,
                         FALSE, aiPlayer, getOpponent(currentPlayer)))

\* minStep with the comparison of the pruning test turned around
minStep_inverted(board, moves, i, depth, alpha, beta, aiPlayer, currentPlayer, minEval, evaluation) ==
    IF alpha <= Min2(beta, evaluation) THEN Min2(minEval, evaluation)
    ELSE minLoop(board, moves, i + 1, depth, alpha, Min2(beta, evaluation), aiPlayer,
                 currentPlayer, Min2(minEval, evaluation))

\* the body of the minimizing branch's loop once move i is scored
minStep(board, moves, i, depth, alpha, beta, aiPlayer, currentPlayer, minEval, evaluation) ==
    IF Min2(beta, evaluation) <= alpha THEN Min2(minEval, evaluation)
    ELSE minLoop(board, moves, i + 1, depth, alpha, Min2(beta, evaluation), aiPlayer,
                 currentPlayer, Min2(minEval, evaluation))

\* the for loop of the minimizing branch, from move i on
minLoop(board, moves, i, depth, alpha, beta, aiPlayer, currentPlayer, minEval) ==
    IF i > Len(moves) THEN minEval
    ELSE minStep(board, moves, i, depth, alpha, beta, aiPlayer, currentPlayer, minEval,
                 minimax(executeMove(board, moves[i]), depth - 1, alpha, beta,
                         TRUE, aiPlayer, getOpponent(currentPlayer)))

\* minimax below its depth test, with the moves of the side to move
minimaxMoves(board, depth, alpha, beta, isMaximizing, aiPlayer, currentPlayer, moves) ==
    IF Len(moves) = 0 THEN terminalScore(depth, isMaximizing)
    ELSE IF isMaximizing
         THEN maxLoop(board, moves, 1, depth, alpha, beta, aiPlayer, currentPlayer,
                      0 - Infinity)
         ELSE minLoop(board, moves, 1, depth, alpha, beta, aiPlayer, currentPlayer,
                      Infinity)

minimax(board, depth, alpha, beta, isMaximizing, aiPlayer, currentPlayer) ==
    IF depth = 0 THEN evaluateBoard(board, aiPlayer)
    ELSE minimaxMoves(board, depth, alpha, beta, isMaximizing, aiPlayer, currentPlayer,
                      getAllValidMoves(board, currentPlayer))

\* the root loop: the first move with the strictly highest score
RECURSIVE rootLoop(_, _, _, _, _, _, _)

\* the body of the root loop once move i is scored
rootStep(board, moves, i, depth, player, bestMove, bestScore, score) ==
    IF score > bestScore
    THEN rootLoop(board, moves, i + 1, depth, player, moves[i], score)
    ELSE rootLoop(board, moves, i + 1, depth, player, bestMove, bestScore)

rootLoop(board, moves, i, depth, player, bestMove, bestScore) ==
    IF i > Len(moves) THEN bestMove
    ELSE rootStep(board, moves, i, depth, player, bestMove, bestScore,
                  minimax(executeMove(board, moves[i]), depth - 1, 0 - Infinity, Infinity,
                          FALSE, player, getOpponent(player)))

\* chooseMove with bestScore starting at 0 instead of -Infinity
chooseMove_bestScoreZero(board, player, difficulty, random, depth, moves) ==
    IF Len(moves) = 0 THEN NoMove
    ELSE IF Len(moves) = 1 THEN moves[1]
    ELSE IF difficulty = "easy" /\ random.useRandom
         THEN moves[(random.randomIndex % Min2(3, Len(moves))) + 1]
    ELSE rootLoop(board, moves, 1, depth, player, NoMove, 0)

\* getBestMove once depth and moves are known. random is the pair of values
\* Math.random() hands out: useRandom says whether the second one was below
\* 0.3, randomIndex is floor(first * min(3, moves.length))
chooseMove(board, player, difficulty, random, depth, moves) ==
    IF Len(moves) = 0 THEN NoMove
    ELSE IF Len(moves) = 1 THEN moves[1]
    ELSE IF difficulty = "easy" /\ random.useRandom
         THEN moves[(random.randomIndex % Min2(3, Len(moves))) + 1]
    ELSE rootLoop(board, moves, 1, depth, player, NoMove, 0 - Infinity)

getBestMove(board, player, difficulty, random) ==
    chooseMove(board, player, difficulty, random, DIFFICULTY_DEPTH[difficulty],
               getAllValidMoves(board, player))

\* ------------------------------------------------------------------------
\* The AI called on bounded inputs: small boards on which the deepest tier's
\* search stays small
\* ------------------------------------------------------------------------

MaxAIPieces == 3

AISeedPool ==
    << [pos |-> Pos(2, 5), piece |-> Piece("white", "pawn")],
       [pos |-> Pos(3, 6), piece |-> Piece("white", "pawn")],
       [pos |-> Pos(4, 7), piece |-> Piece("black", "pawn")],
       [pos |-> Pos(5, 2), piece |-> Piece("black", "pawn")],
       [pos |-> Pos(2, 1), piece |-> Piece("white", "pawn")] >>

RECURSIVE placeAllAI(_, _)
placeAllAI(board, S) ==
    IF S = {} THEN board
    ELSE LET i == CHOOSE x \in S : TRUE
         IN  placeAllAI(setPieceAt(board, AISeedPool[i].pos, AISeedPool[i].piece), S \ {i})

AISeedBoards ==
    {placeAllAI(EmptyBoard, S) :
        S \in {T \in SUBSET (1..Len(AISeedPool)) : Cardinality(T) <= MaxAIPieces}}

InitAI ==
    /\ inBoard \in AISeedBoards
    /\ inPlayer \in {"white", "black"}
    /\ outMoves = <<>>
    /\ prevBoard = <<>>
    /\ lastMove = NoMove
    /\ plies = 0
    /\ pc = "input"
    /\ CoordInit
    /\ EndIdle
    /\ StoreIdle
    /\ aiDifficulty \in {"easy", "medium", "hard"}
    /\ aiRandom = NoRandom
    /\ outBest = NoMove
    /\ aiNode = NoNode
    /\ outScore = 0

\* a caller asks for the AI's move; the easy tier draws two random numbers
Search(random) ==
    /\ pc = "input"
    /\ aiDifficulty = "easy" \/ random = NoRandom
    /\ aiRandom' = random
    /\ outBest' = getBestMove(inBoard, inPlayer, aiDifficulty, random)
    /\ pc' = "searched"
    /\ UNCHANGED <<inBoard, inPlayer, outMoves, prevBoard, lastMove, plies>>
    /\ UNCHANGED <<aiDifficulty, aiNode, outScore>>
    /\ UNCHANGED <<coordVars, endVars, storeVars>>

\* the search reaches a node whose side to move has no legal move, with depth
\* left; isMaximizing says whether that side is the AI
ScoreNode(depth, isMaximizing) ==
    /\ pc = "input"
    /\ Len(getAllValidMoves(inBoard, inPlayer)) = 0
    /\ aiNode' = [depth |-> depth, isMaximizing |-> isMaximizing]
    /\ outScore' = minimax(inBoard, depth, 0 - Infinity, Infinity, isMaximizing,
                           IF isMaximizing THEN inPlayer ELSE getOpponent(inPlayer), inPlayer)
    /\ pc' = "scored"
    /\ UNCHANGED <<inBoard, inPlayer, outMoves, prevBoard, lastMove, plies>>
    /\ UNCHANGED <<aiDifficulty, aiRandom, outBest>>
    /\ UNCHANGED <<coordVars, endVars, storeVars>>

NextAI ==
    \/ \E useRandom \in BOOLEAN, randomIndex \in 0..2 :
          Search([useRandom |-> useRandom, randomIndex |-> randomIndex])
    \/ \E depth \in 1..(DIFFICULTY_DEPTH["hard"] - 1), isMaximizing \in BOOLEAN :
          ScoreNode(depth, isMaximizing)

SpecAI == InitAI /\ [][NextAI]_vars

\* ------------------------------------------------------------------------
\* C23
\* ------------------------------------------------------------------------

\* C23 (as stated): getBestMove returns none only if no piece belongs to the
\* player; whenever the player has at least one piece, it returns a member of
\* getAllValidMoves(board, player), for every tier and either random outcome.
C23_NoneOnlyWithoutPieces ==
    pc = "searched" =>
        LET moves == getAllValidMoves(inBoard, inPlayer)
        IN  /\ outBest = NoMove => countPieces(inBoard, inPlayer) = 0
            /\ countPieces(inBoard, inPlayer) > 0 => outBest \in Range(moves)

\* C23 (amended): getBestMove returns none exactly when the player has no
\* legal move, with or without pieces; otherwise it returns a member of
\* getAllValidMoves(board, player), for every tier and either random outcome.
C23_NoneIffNoLegalMove ==
    pc = "searched" =>
        LET moves == getAllValidMoves(inBoard, inPlayer)
        IN  IF Len(moves) = 0 THEN outBest = NoMove
            ELSE outBest \in Range(moves)

\* the easy tier substituted a random move that is not the first of the list
C23_Witness ==
    /\ pc = "searched"
    /\ aiDifficulty = "easy"
    /\ aiRandom.useRandom
    /\ Len(getAllValidMoves(inBoard, inPlayer)) >= 2
    /\ outBest # NoMove
    /\ outBest # getAllValidMoves(inBoard, inPlayer)[1]

\* ------------------------------------------------------------------------
\* C24
\* ------------------------------------------------------------------------

SetMax(S) == CHOOSE x \in S : \A y \in S : y <= x
SetMin(S) == CHOOSE x \in S : \A y \in S : x <= y

\* minimax without any pruning: every child of every node is scored
RECURSIVE minimaxPlain(_, _, _, _, _)
minimaxPlain(board, depth, isMaximizing, aiPlayer, currentPlayer) ==
    IF depth = 0 THEN evaluateBoard(board, aiPlayer)
    ELSE LET moves == getAllValidMoves(board, currentPlayer)
             scores == {minimaxPlain(executeMove(board, moves[i]), depth - 1, ~isMaximizing,
                                     aiPlayer, getOpponent(currentPlayer)) : i \in 1..Len(moves)}
         IN  IF Len(moves) = 0 THEN terminalScore(depth, isMaximizing)
             ELSE IF isMaximizing THEN SetMax(scores) ELSE SetMin(scores)

\* the unpruned score of root move `move` at the depth budget of the call
plainRootScore(move) ==
    minimaxPlain(executeMove(inBoard, move), DIFFICULTY_DEPTH[aiDifficulty] - 1, FALSE,
                 inPlayer, getOpponent(inPlayer))

\* the call went through the search loop: two or more legal moves and no
\* random substitution
searchedByLoop ==
    /\ pc = "searched"
    /\ Len(getAllValidMoves(inBoard, inPlayer)) >= 2
    /\ ~(aiDifficulty = "easy" /\ aiRandom.useRandom)

\* C24: the move chosen by the alpha-beta search of getBestMove (non-random
\* path) has a plain unpruned minimax score, at the same depth, equal to the
\* maximum over all legal root moves.
C24_PruningSound ==
    searchedByLoop =>
        LET moves == getAllValidMoves(inBoard, inPlayer)
        IN  /\ outBest \in Range(moves)
            /\ plainRootScore(outBest) = SetMax({plainRootScore(m) : m \in Range(moves)})

\* a deepest-tier search chose a move other than the first among root moves
\* whose unpruned scores differ
C24_Witness ==
    /\ searchedByLoop
    /\ aiDifficulty = "hard"
    /\ outBest # getAllValidMoves(inBoard, inPlayer)[1]
    /\ \E m \in Range(getAllValidMoves(inBoard, inPlayer)) :
          plainRootScore(m) < plainRootScore(outBest)

\* ------------------------------------------------------------------------
\* C25
\* ------------------------------------------------------------------------

\* what the minimax call of ScoreNode returns with `depth` left instead
scoreAtDepth(depth) ==
    minimax(inBoard, depth, 0 - Infinity, Infinity, aiNode.isMaximizing,
            IF aiNode.isMaximizing THEN inPlayer ELSE getOpponent(inPlayer), inPlayer)

\* C25: at a node whose side to move has no legal move, a win for the AI with
\* more remaining depth scores strictly higher than the same win with less
\* remaining depth, and a loss with less remaining depth scores strictly
\* higher than the same loss with more remaining depth.
C25_FasterWinsSlowerLosses ==
    pc = "scored" =>
        \A less \in 1..(DIFFICULTY_DEPTH["hard"] - 1) :
            less < aiNode.depth =>
                IF aiNode.isMaximizing
                THEN scoreAtDepth(less) > outScore
                ELSE outScore > scoreAtDepth(less)

\* ------------------------------------------------------------------------
\* store/gameStore.ts: the local game store (PvP and PvE)
\* ------------------------------------------------------------------------

MaxStoreMoves == 3

\* the squares the user clicks on: the dark squares of the left columns of the
\* four middle rows and of the row behind each
ClickRows == 2..5
ClickCols == 0..2

ClickSquares == {pos \in {Pos(r, c) : r \in ClickRows, c \in ClickCols} :
                    (pos.row + pos.col) % 2 = 1}

\* the tiers startGame is called with
StoreDifficulties == {"easy"}

\* the numbers Math.random() hands out to the searches the store starts: the
\* easy tier's random substitution of the first legal move
StoreRandoms == {[useRandom |-> TRUE, randomIndex |-> 0]}

\* an entry of `history`
HistoryEntry(board, currentPlayer, capturedWhite, capturedBlack, move) ==
    [board |-> board, currentPlayer |-> currentPlayer, capturedWhite |-> capturedWhite,
     capturedBlack |-> capturedBlack, move |-> move]

\* an AI turn in flight: getBestMoveAsync waiting for its timer ("search"), or
\* the delayed application of its result ("apply")
AITask(stage, board, difficulty, move) ==
    [stage |-> stage, board |-> board, difficulty |-> difficulty, move |-> move]

startGame(mode, difficulty) ==
    LET board == createInitialBoard
        initialHistory == HistoryEntry(cloneBoard(board), "white", 0, 0, NoMove)
    IN  [board |-> board,
         currentPlayer |-> "white",
         selectedPiece |-> NoPos,
         validMoves |-> <<>>,
         capturedWhite |-> 0,
         capturedBlack |-> 0,
         history |-> <<initialHistory>>,
         historyIndex |-> 0,
         gameStatus |-> "playing",
         gameMode |-> mode,
         aiDifficulty |-> difficulty,
         winner |-> "none",
         aiThinking |-> FALSE]

\* makeMove appending to the whole history
historySlice_whole(state) == state.history

\* history.slice(0, historyIndex + 1) of makeMove
historySlice(state) == SubSeq(state.history, 1, state.historyIndex + 1)

\* the set() of makeMove
makeMoveSet(state, newBoard, nextPlayer, newCapturedWhite, newCapturedBlack, newHistory, gameEnd) ==
    [state EXCEPT !.board = newBoard,
                  !.currentPlayer = nextPlayer,
                  !.selectedPiece = NoPos,
                  !.validMoves = <<>>,
                  !.capturedWhite = newCapturedWhite,
                  !.capturedBlack = newCapturedBlack,
                  !.history = newHistory,
                  !.historyIndex = Len(newHistory) - 1,
                  !.gameStatus = IF gameEnd.ended THEN "ended" ELSE "playing",
                  !.winner = gameEnd.winner]

\* makeMove from "Add to history" to its set()
makeMoveHistory(state, move, newBoard, nextPlayer, newCapturedWhite, newCapturedBlack) ==
    makeMoveSet(state, newBoard, nextPlayer, newCapturedWhite, newCapturedBlack,
                Append(historySlice(state),
                       HistoryEntry(cloneBoard(newBoard), nextPlayer, newCapturedWhite,
                                    newCapturedBlack, move)),
                checkGameEnd(newBoard, nextPlayer))

\* makeMove up to its first set(): the state it writes
makeMoveState(state, move) ==
    makeMoveHistory(state, move, executeMove(state.board, move),
                    getOpponent(state.currentPlayer),
                    state.capturedWhite +
                        (IF state.currentPlayer = "black" THEN Len(move.captures) ELSE 0),
                    state.capturedBlack +
                        (IF state.currentPlayer = "white" THEN Len(move.captures) ELSE 0))

\* the "AI turn" test of makeMove on the state it has just written
aiTurn(updatedState) ==
    /\ updatedState.gameMode = "pve"
    /\ updatedState.currentPlayer = "black"
    /\ updatedState.gameStatus = "playing"

\* makeMove up to its await: the state it leaves and the AI turns in flight
\* makeMove after its set(): the AI turn is started if it is due
makeMoveAI(updatedState, tasks) ==
    IF aiTurn(updatedState)
    THEN [state |-> [updatedState EXCEPT !.aiThinking = TRUE],
          pending |-> Append(tasks, AITask("search", updatedState.board,
                                           updatedState.aiDifficulty, NoMove))]
    ELSE [state |-> updatedState, pending |-> tasks]

makeMove(state, tasks, move) ==
    IF state.gameStatus # "playing" THEN [state |-> state, pending |-> tasks]
    ELSE makeMoveAI(makeMoveState(state, move), tasks)

\* the first move of validMoves that ends on pos (NoMove if there is none)
findMoveTo(validMoves, pos) ==
    IF \E i \in 1..Len(validMoves) : validMoves[i].to = pos
    THEN validMoves[CHOOSE i \in 1..Len(validMoves) :
                        /\ validMoves[i].to = pos
                        /\ \A j \in 1..(i - 1) : validMoves[j].to # pos]
    ELSE NoMove

\* the moves of allMoves that start on pos, in order
RECURSIVE movesFrom(_, _)
movesFrom(allMoves, pos) ==
    IF allMoves = <<>> THEN <<>>
    ELSE IF Head(allMoves).from = pos
         THEN <<Head(allMoves)>> \o movesFrom(Tail(allMoves), pos)
         ELSE movesFrom(Tail(allMoves), pos)

undo(state) ==
    LET stepsBack == IF state.gameMode = "pve" /\ state.historyIndex >= 2 THEN 2 ELSE 1
        newIndex == Max2(0, state.historyIndex - stepsBack)
        historyEntry == state.history[newIndex + 1]
    IN  [state EXCEPT !.board = cloneBoard(historyEntry.board),
                      !.currentPlayer = historyEntry.currentPlayer,
                      !.capturedWhite = historyEntry.capturedWhite,
                      !.capturedBlack = historyEntry.capturedBlack,
                      !.historyIndex = newIndex,
                      !.selectedPiece = NoPos,
                      !.validMoves = <<>>,
                      !.gameStatus = "playing",
                      !.winner = "none"]

redo(state) ==
    LET newIndex == state.historyIndex + 1
        historyEntry == state.history[newIndex + 1]
    IN  [state EXCEPT !.board = cloneBoard(historyEntry.board),
                      !.currentPlayer = historyEntry.currentPlayer,
                      !.capturedWhite = historyEntry.capturedWhite,
                      !.capturedBlack = historyEntry.capturedBlack,
                      !.historyIndex = newIndex,
                      !.selectedPiece = NoPos,
                      !.validMoves = <<>>]

\* whether makeMove(move) on `state` would apply a move
appliesMove(state) == state.gameStatus = "playing"

\* the store and the AI turns in flight become what makeMove left
Commit(result) ==
    /\ store' = result.state
    /\ pending' = result.pending

StartGame(mode, difficulty) ==
    /\ store' = startGame(mode, difficulty)
    /\ UNCHANGED <<pending, storeMoves>>

SelectPiece(pos) ==
    /\ ~(store.gameStatus # "playing" \/ store.aiThinking)
    /\ LET piece == store.board[pos.row][pos.col]
           move == IF store.selectedPiece # NoPos
                   THEN findMoveTo(store.validMoves, pos) ELSE NoMove
       IN  IF move # NoMove
           THEN /\ storeMoves < MaxStoreMoves
                /\ Commit(makeMove(store, pending, move))
                /\ storeMoves' = storeMoves + 1
           ELSE /\ IF piece # Null /\ piece.player = store.currentPlayer
                   THEN store' = [store EXCEPT
                            !.selectedPiece = pos,
                            !.validMoves = movesFrom(getAllValidMoves(store.board,
                                                                     store.currentPlayer), pos)]
                   ELSE store' = [store EXCEPT !.selectedPiece = NoPos, !.validMoves = <<>>]
                /\ UNCHANGED <<pending, storeMoves>>

Undo ==
    /\ ~(store.historyIndex <= 0)
    /\ store' = undo(store)
    /\ UNCHANGED <<pending, storeMoves>>

Redo ==
    /\ ~(store.historyIndex >= Len(store.history) - 1)
    /\ store' = redo(store)
    /\ UNCHANGED <<pending, storeMoves>>

ResetGame ==
    /\ store' = startGame(store.gameMode, store.aiDifficulty)
    /\ UNCHANGED <<pending, storeMoves>>

GoToMenu ==
    /\ store' = [initialState EXCEPT !.aiThinking = store.aiThinking]
    /\ UNCHANGED <<pending, storeMoves>>

\* the position in `pending` of the oldest AI turn still waiting for its search
\* (0 if there is none); the 300 ms timers fire in the order they were set
firstSearch ==
    IF \E i \in 1..Len(pending) : pending[i].stage = "search"
    THEN CHOOSE i \in 1..Len(pending) :
            /\ pending[i].stage = "search"
            /\ \A j \in 1..(i - 1) : pending[j].stage # "search"
    ELSE 0

removeAt(seq, i) == SubSeq(seq, 1, i - 1) \o SubSeq(seq, i + 1, Len(seq))

\* makeMove goes on after its await with the AI's move
Resolve(i, task, aiMove) ==
    IF aiMove # NoMove
    THEN /\ pending' = [pending EXCEPT ![i] = AITask("apply", task.board,
                                                     task.difficulty, aiMove)]
         /\ UNCHANGED store
    ELSE /\ pending' = removeAt(pending, i)
         /\ store' = [store EXCEPT !.aiThinking = FALSE]

\* the timer of getBestMoveAsync fires: getBestMove runs on the board the
\* search was started with, and makeMove goes on after its await
AISearchDone(random) ==
    /\ firstSearch # 0
    /\ Resolve(firstSearch, pending[firstSearch],
               getBestMove(pending[firstSearch].board, "black",
                           pending[firstSearch].difficulty, random))
    /\ UNCHANGED storeMoves

\* what the 200 ms callback leaves: makeMove's result with aiThinking cleared
CommitAI(result) ==
    /\ store' = [result.state EXCEPT !.aiThinking = FALSE]
    /\ pending' = result.pending

\* the 200 ms timer fires: get().makeMove(aiMove), then aiThinking is cleared
AIApply ==
    /\ pending # <<>>
    /\ pending[1].stage = "apply"
    /\ appliesMove(store) => storeMoves < MaxStoreMoves
    /\ CommitAI(makeMove(store, Tail(pending), pending[1].move))
    /\ storeMoves' = IF appliesMove(store) THEN storeMoves + 1 ELSE storeMoves

InitStore == EngineIdle /\ CoordInit /\ AuxIdle

NextStore ==
    \/ \E mode \in {"pvp", "pve"}, difficulty \in StoreDifficulties :
          StartGame(mode, difficulty) /\ UNCHANGED <<engineVars, coordVars, endVars, aiVars>>
    \/ \E pos \in ClickSquares :
          SelectPiece(pos) /\ UNCHANGED <<engineVars, coordVars, endVars, aiVars>>
    \/ Undo /\ UNCHANGED <<engineVars, coordVars, endVars, aiVars>>
    \/ Redo /\ UNCHANGED <<engineVars, coordVars, endVars, aiVars>>
    \/ ResetGame /\ UNCHANGED <<engineVars, coordVars, endVars, aiVars>>
    \/ GoToMenu /\ UNCHANGED <<engineVars, coordVars, endVars, aiVars>>
    \/ \E random \in StoreRandoms :
          AISearchDone(random) /\ UNCHANGED <<engineVars, coordVars, endVars, aiVars>>
    \/ AIApply /\ UNCHANGED <<engineVars, coordVars, endVars, aiVars>>

SpecStore == InitStore /\ [][NextStore]_vars

\* ------------------------------------------------------------------------
\* Properties of the local game store
\* ------------------------------------------------------------------------

\* this step is the delayed application of the oldest AI result, and it
\* changed the game state (aiThinking apart)
aiMoveApplied ==
    /\ pending # <<>>
    /\ pending[1].stage = "apply"
    /\ \/ pending' = Tail(pending)
       \/ /\ Len(pending') = Len(pending)
          /\ SubSeq(pending', 1, Len(pending) - 1) = Tail(pending)
          /\ pending'[Len(pending)].stage = "search"
    /\ [store' EXCEPT !.aiThinking = store.aiThinking] # store

\* C26: in PvE an AI move changes the game state only when the game is still
\* playing, black is to move and the board is the one the search was run on;
\* a result that arrives after the match ended, was reset, undone or left is
\* never applied.
C26_StaleAIResultsDiscarded ==
    [][(store.gameMode = "pve" /\ aiMoveApplied) =>
            /\ store.gameStatus = "playing"
            /\ store.currentPlayer = "black"
            /\ store.board = pending[1].board]_vars

\* this step is an undo that took effect
undoTookEffect ==
    /\ store'.history = store.history
    /\ store'.historyIndex < store.historyIndex

\* C27: in PvE, whenever undo takes effect, the restored history entry has
\* white (the human) as side to move.
C27_UndoReturnsControlToHuman ==
    [][(store.gameMode = "pve" /\ undoTookEffect) => store'.currentPlayer = "white"]_vars

\* the live board, side to move and capture counts are those of
\* history[historyIndex], and historyIndex points into history
liveIsHistoryEntry(state) ==
    /\ 0 <= state.historyIndex
    /\ state.historyIndex < Len(state.history)
    /\ LET entry == state.history[state.historyIndex + 1]
       IN  /\ state.board = entry.board
           /\ state.currentPlayer = entry.currentPlayer
           /\ state.capturedWhite = entry.capturedWhite
           /\ state.capturedBlack = entry.capturedBlack

\* C28: after startGame and any sequence of moves, undo and redo,
\* 0 <= historyIndex < len(history) and the live board, side to move and
\* capture counts equal those of history[historyIndex]; a move made at index i
\* keeps entries 0..i, discards the entries after i and appends exactly one
\* entry at i + 1.
C28_HistoryTruncateOnBranch ==
    [][/\ store'.gameStatus # "menu" => liveIsHistoryEntry(store')
       /\ storeMoves' = storeMoves + 1 =>
            LET i == store.historyIndex
            IN  /\ store'.historyIndex = i + 1
                /\ Len(store'.history) = i + 2
                /\ SubSeq(store'.history, 1, i + 1) = SubSeq(store.history, 1, i + 1)]_vars

\* two moves were made and one undone: a move made now branches
C28_Witness ==
    /\ store.gameStatus = "playing"
    /\ storeMoves = 2
    /\ Len(store.history) = 3
    /\ store.historyIndex = 1

\* ------------------------------------------------------------------------
\* A game played from the starting board with generated moves only
\* ------------------------------------------------------------------------

MaxGamePlies == 4

InitGame ==
    /\ inBoard = createInitialBoard
    /\ inPlayer = "white"
    /\ outMoves = <<>>
    /\ prevBoard = <<>>
    /\ lastMove = NoMove
    /\ plies = 0
    /\ pc = "input"
    /\ CoordInit
    /\ AuxIdle

\* the side to move plays one of the generated moves
Play(i) ==
    /\ pc = "moves"
    /\ plies < MaxGamePlies
    /\ i \in 1..Len(outMoves)
    /\ prevBoard' = inBoard
    /\ lastMove' = outMoves[i]
    /\ inBoard' = executeMove(inBoard, outMoves[i])
    /\ inPlayer' = getOpponent(inPlayer)
    /\ outMoves' = <<>>
    /\ plies' = plies + 1
    /\ pc' = "input"
    /\ UNCHANGED <<coordVars, auxVars>>

NextGame ==
    \/ Generate
    \/ \E i \in 1..12 : Play(i)

SpecGame == InitGame /\ [][NextGame]_vars

\* ------------------------------------------------------------------------
\* C29, C30
\* ------------------------------------------------------------------------

isDark(pos) == (pos.row + pos.col) % 2 = 1

\* C29: starting from the starting board and applying any sequence of generated
\* moves through executeMove, every occupied square has (row + col) odd.
C29_LightSquaresStayEmpty ==
    \A pos \in Squares : getPieceAt(inBoard, pos) # Null => isDark(pos)

\* the last ply of the sequence has been played, and it was a capture
C29_Witness ==
    /\ plies = MaxGamePlies
    /\ Len(lastMove.captures) >= 1
    /\ getPieceAt(inBoard, lastMove.to) # Null
    /\ getPieceAt(inBoard, lastMove.from) = Null

\* the squares of `board` that hold a piece of `player`
squaresOf(board, player) ==
    {pos \in Squares : getPieceAt(board, pos) # Null /\ getPieceAt(board, pos).player = player}

\* a starting board: 12 pieces per side, all pawns, each side on exactly the
\* dark squares of three ranks, nothing on a light square
isStartingBoard(board) ==
    /\ \A player \in {"white", "black"} :
          LET mine == squaresOf(board, player)
              ranks == {pos.row : pos \in mine}
          IN  /\ Cardinality(mine) = 12
              /\ \A pos \in mine : getPieceAt(board, pos).type = "pawn"
              /\ Cardinality(ranks) = 3
              /\ mine = {pos \in Squares : pos.row \in ranks /\ isDark(pos)}
    /\ \A pos \in Squares : getPieceAt(board, pos) # Null => isDark(pos)

\* C30: the starting board of the rules engine and that of the coordinator have
\* exactly 12 pieces per side, all pawns, each side filling the dark squares of
\* three ranks, none on light squares; every call produces an equal board.
C30_StartingBoard ==
    plies = 0 =>
        /\ inBoard = createInitialBoard
        /\ isStartingBoard(inBoard)
        /\ isStartingBoard(serverCreateInitialBoard)

\* the generator has been called on the starting board
C30_Witness ==
    /\ plies = 0
    /\ pc = "moves"
    /\ inBoard = createInitialBoard
    /\ Len(outMoves) = 7

\* ------------------------------------------------------------------------
\* The move generator called on bounded inputs
\* ------------------------------------------------------------------------

NextGen == Generate

SpecGen == InitEngine /\ [][NextGen]_vars

\* ------------------------------------------------------------------------
\* Shape of the generated moves
\* ------------------------------------------------------------------------

\* the squares that share a diagonal with pos
diagonalSquares(pos) ==
    {q \in Squares \ {pos} :
        (q.row - pos.row = q.col - pos.col) \/ (q.row - pos.row = pos.col - q.col)}

sign(n) == IF n > 0 THEN 1 ELSE IF n < 0 THEN -1 ELSE 0

\* every square from the one next to `from` up to and including `to` is empty
clearPath(board, from, to) ==
    \A j \in 1..(sign(to.row - from.row) * (to.row - from.row)) :
        isEmptyAt(board, Pos(from.row + sign(to.row - from.row) * j,
                             from.col + sign(to.col - from.col) * j))

\* the squares the piece standing on pos reaches without passing over anything: a pawn
\* one square diagonally toward its farthest rank, a king along a clear diagonal
quietTargets(board, pos, piece) ==
    IF piece.type = "pawn"
    THEN {q \in {Pos(pos.row + (IF piece.player = "white" THEN 1 ELSE -1), pos.col - 1),
                 Pos(pos.row + (IF piece.player = "white" THEN 1 ELSE -1), pos.col + 1)} :
             isEmptyAt(board, q)}
    ELSE {q \in diagonalSquares(pos) : clearPath(board, pos, q)}

quietReach(board, piece, from, to) == to \in quietTargets(board, from, piece)

fromHoldsOwnPiece(board, player, move) ==
    isValidPosition(move.from) /\ getPieceAt(board, move.from).player = player

capturesHoldEnemies(board, player, move) ==
    \A k \in 1..Len(move.captures) :
        /\ isValidPosition(move.captures[k])
        /\ getPieceAt(board, move.captures[k]).player = getOpponent(player)

capturesDistinct(move) ==
    \A k, l \in 1..Len(move.captures) : k # l => move.captures[k] # move.captures[l]

emptyCapturesIffStep(board, player, move) ==
    (Len(move.captures) = 0)
        = ( /\ ~captureExists(board, player)
            /\ quietReach(board, getPieceAt(board, move.from), move.from, move.to) )

toEmptyOrFrom(board, move) ==
    isEmptyAt(board, move.to) \/ move.to = move.from

\* C31 - move well-formedness: for every move returned by getAllValidMoves(board,
\* player), from holds a piece of player, every position in captures holds an
\* opponent piece on the input board, no position repeats within captures, captures
\* is empty exactly for simple steps, and to is empty on the input board or is from.
C31_MoveWellFormed ==
    pc = "moves" =>
        \A i \in 1..Len(outMoves) :
            /\ fromHoldsOwnPiece(inBoard, inPlayer, outMoves[i])
            /\ capturesHoldEnemies(inBoard, inPlayer, outMoves[i])
            /\ capturesDistinct(outMoves[i])
            /\ emptyCapturesIffStep(inBoard, inPlayer, outMoves[i])
            /\ toEmptyOrFrom(inBoard, outMoves[i])

\* the quiet steps open to the player: <<from, to>>
quietSteps(board, player) ==
    UNION {{<<p, q>> : q \in quietTargets(board, p, getPieceAt(board, p))} :
           p \in piecesOf(board, player)}

\* the list holds each of the steps once and nothing else
listsExactly(moves, steps) ==
    /\ {<<moves[i].from, moves[i].to>> : i \in 1..Len(moves)} = steps
    /\ Len(moves) = Cardinality(steps)

loneKing(board, player) ==
    /\ piecesOf(board, getOpponent(player)) = {}
    /\ \E p \in Squares : /\ piecesOf(board, player) = {p}
                          /\ getPieceAt(board, p).type = "king"

\* C32 - non-capturing moves: when no capture exists for the player, the list
\* returned by getAllValidMoves is exactly, for each pawn, each empty diagonally
\* adjacent square one step toward its farthest rank and, for each king, every empty
\* square along each of the four diagonals up to but excluding the first occupied
\* square or the edge, each once and with empty captures; for a lone king on an
\* otherwise empty board it is one move per square on its diagonals, none promoting.
C32_NonCapturingMoves ==
    (pc = "moves" /\ ~captureExists(inBoard, inPlayer)) =>
        /\ listsExactly(outMoves, quietSteps(inBoard, inPlayer))
        /\ \A i \in 1..Len(outMoves) : outMoves[i].captures = <<>>
        /\ loneKing(inBoard, inPlayer) =>
               /\ \A i \in 1..Len(outMoves) : ~outMoves[i].isPromotion
               /\ \A p \in piecesOf(inBoard, inPlayer) :
                      {outMoves[i].to : i \in 1..Len(outMoves)} = diagonalSquares(p)

\* no capture exists; a king slides two squares or more and then meets a piece, and
\* a pawn of the same player has a step open
C32_Witness ==
    /\ pc = "moves"
    /\ ~captureExists(inBoard, inPlayer)
    /\ \E i, j \in 1..Len(outMoves) :
          /\ getPieceAt(inBoard, outMoves[i].from).type = "pawn"
          /\ getPieceAt(inBoard, outMoves[j].from).type = "king"
          /\ \E d \in 1..4 :
                /\ outMoves[j].to = step(outMoves[j].from, DIRECTIONS[d], 2)
                /\ getPieceAt(inBoard, step(outMoves[j].from, DIRECTIONS[d], 3)) # Null

\* ------------------------------------------------------------------------
\* Capture chains
\* ------------------------------------------------------------------------

\* the chains of jumps open to the piece standing on pos, each jump taken on the
\* board the jumps before it left: the squares taken in order, and the last landing
RECURSIVE chainsFrom(_, _, _)
chainsFrom(board, pos, piece) ==
    LET js == jumpsOf(board, pos, piece)
    IN  IF js = {} THEN {[captures |-> <<>>, to |-> pos]}
        ELSE UNION {{[captures |-> <<j[1]>> \o c.captures, to |-> c.to] :
                        c \in chainsFrom(afterJump(board, pos, piece, j), j[2],
                                         landedPiece(piece, j[2]))} : j \in js}

\* the jumps of the pawn on pos that land on its farthest rank with a capture open
\* from there to a king
promotingJumps(board, pos, piece) ==
    {j \in jumpsOf(board, pos, piece) :
        /\ piece.type = "pawn"
        /\ j[2].row = farthestRank(piece.player)
        /\ jumpsOf(afterJump(board, pos, piece, j), j[2], Piece(piece.player, "king")) # {}}

\* the chains getCapturesForPiece returns for the piece on pos that start by taking `first`
generatedChains(board, pos, first) ==
    {ch \in Range(getCapturesForPiece(board, pos, getPieceAt(board, pos), <<>>)) :
        ch.captures[1] = first}

\* what the generator returned for a promoting jump j of the pawn on pos is the jump
\* followed by a king's chains from the landing square
continuesAsKing(board, player, pos, j, generated, longest, moves) ==
    /\ {[captures |-> ch.captures, to |-> ch.to] : ch \in generated}
           = {[captures |-> <<j[1]>> \o c.captures, to |-> c.to] :
                 c \in chainsFrom(afterJump(board, pos, getPieceAt(board, pos), j), j[2],
                                  Piece(player, "king"))}
    /\ \A ch \in generated :
           /\ Len(ch.captures) >= 2
           /\ ch.isPromotion
           /\ getPieceAt(executeMove(board, ch), ch.to) = Piece(player, "king")
           /\ Len(ch.captures) <= longest
           /\ Len(ch.captures) = longest => ch \in Range(moves)
    /\ \A i \in 1..Len(moves) : Len(moves[i].captures) = longest

\* C33 - mid-chain promotion: when a pawn's jump lands on its farthest rank and a
\* capture is open from there to a king, the chains generated for that jump are the
\* jump followed by a king's chains from the landing square (long-range scan and
\* landing), their lengths count toward the maximal capture length of the list, and
\* each has isPromotion set, so executeMove leaves a king on move.to.
C33_MidChainPromotion ==
    pc = "moves" =>
        \A p \in piecesOf(inBoard, inPlayer) :
            \A j \in promotingJumps(inBoard, p, getPieceAt(inBoard, p)) :
                continuesAsKing(inBoard, inPlayer, p, j, generatedChains(inBoard, p, j[1]),
                                globalLongest(inBoard, inPlayer), outMoves)

\* a listed move of a pawn lands on the farthest rank with its first jump, takes a
\* second piece as a king and lands two squares or more beyond it
C33_Witness ==
    /\ pc = "moves"
    /\ \E i \in 1..Len(outMoves) :
          /\ getPieceAt(inBoard, outMoves[i].from).type = "pawn"
          /\ Len(outMoves[i].captures) = 2
          /\ pawnLanding(outMoves[i].from, outMoves[i].captures, 1).row = farthestRank(inPlayer)
          /\ outMoves[i].isPromotion
          /\ \E d \in 1..4, k \in 2..BOARD_SIZE :
                outMoves[i].to = step(outMoves[i].captures[2], DIRECTIONS[d], k)

\* the first piece the king on pos took is the first occupied square of a diagonal,
\* an enemy, with the square right behind it empty
firstJumpGeometry(board, pos, piece, ch) ==
    \E d \in 1..4, k \in 1..BOARD_SIZE :
        /\ ch.captures[1] = step(pos, DIRECTIONS[d], k)
        /\ \A j \in 1..(k - 1) : isEmptyAt(board, step(pos, DIRECTIONS[d], j))
        /\ isEnemyAt(board, ch.captures[1], piece)
        /\ isEmptyAt(board, step(pos, DIRECTIONS[d], k + 1))

\* what getCapturesForPiece returned for the king on pos
kingChainsAsRuled(board, player, pos, piece, generated) ==
    /\ {[captures |-> ch.captures, to |-> ch.to] : ch \in generated}
           = (IF jumpsOf(board, pos, piece) = {} THEN {} ELSE chainsFrom(board, pos, piece))
    /\ \A ch \in generated :
           /\ firstJumpGeometry(board, pos, piece, ch)
           /\ capturesHoldEnemies(board, player, ch)
           /\ capturesDistinct(ch)
           /\ ~ch.isPromotion

\* C34 - king capture geometry: along a diagonal a king takes only the first occupied
\* square it meets, only if that square holds an enemy and the square right behind it
\* is empty; every empty square behind the enemy up to the next occupied square or the
\* edge is a landing of its own, from which the chain goes on; the king never jumps
\* its own piece, never two pieces with no gap between them, and never takes the same
\* square twice in one chain.
C34_KingCaptureGeometry ==
    pc = "moves" =>
        \A p \in piecesOf(inBoard, inPlayer) :
            getPieceAt(inBoard, p).type = "king" =>
                kingChainsAsRuled(inBoard, inPlayer, p, getPieceAt(inBoard, p),
                    Range(getCapturesForPiece(inBoard, p, getPieceAt(inBoard, p), <<>>)))

\* a king meets an enemy two squares or more away and the list holds two landings
\* behind it
C34_Witness ==
    /\ pc = "moves"
    /\ \E i, j \in 1..Len(outMoves) :
          /\ getPieceAt(inBoard, outMoves[i].from).type = "king"
          /\ outMoves[j].from = outMoves[i].from
          /\ Len(outMoves[i].captures) = 1
          /\ outMoves[j].captures = outMoves[i].captures
          /\ outMoves[j].to # outMoves[i].to
          /\ \E d \in 1..4, k \in 2..BOARD_SIZE :
                outMoves[i].captures[1] = step(outMoves[i].from, DIRECTIONS[d], k)

\* ------------------------------------------------------------------------
\* More properties of the session coordinator
\* ------------------------------------------------------------------------

\* the sender of the event is neither the host nor the guest of the Room it named
senderIsOutsider ==
    /\ last.pre # NoRoom
    /\ last.sender # last.pre.hostId
    /\ last.sender # last.pre.guestId

\* C35 - only a Room's participants can affect it: a make-move, leave-room or
\* request-rematch sent by a socket that is neither the host nor the guest of the
\* Room it names leaves the Room registered, with its board, side to move, capture
\* counts and status as they were.
C35_OnlyParticipantsAffectRoom ==
    ( /\ last.ev \in {"make-move", "leave-room", "request-rematch"}
      /\ senderIsOutsider )
    => postRoom = last.pre

\* C36 - in every registered Room the host and the guest are different sockets, so
\* one socket is treated as white and another one as black.
C36_HostAndGuestDistinct ==
    \A rid \in DOMAIN rooms :
        /\ rooms[rid].hostId # NoClient
        /\ rooms[rid].guestId # rooms[rid].hostId
        /\ rooms[rid].guestId # NoClient =>
               /\ expectedPlayer(rooms[rid], rooms[rid].hostId) = "white"
               /\ expectedPlayer(rooms[rid], rooms[rid].guestId) = "black"

\* C37 - no game-start for a removed Room: when the game-start timeout of a join
\* fires after the Room was removed (leave-room or disconnect of a participant), no
\* game-start is delivered to any socket.
C37_NoGameStartForRemovedRoom ==
    ( /\ last.ev = "game-start-timer"
      /\ last.pre = NoRoom )
    => \A m \in last.sent : m.ev # "game-start"

\* ------------------------------------------------------------------------
\* The local game store late in a game: few pieces are left, the user moves,
\* undoes and redoes, and in PvE the AI answers
\* ------------------------------------------------------------------------

MaxLatePieces == 3

\* candidate placements of the pieces that are left
LateSeedPool ==
    << [pos |-> Pos(2, 1), piece |-> Piece("white", "pawn")],
       [pos |-> Pos(3, 2), piece |-> Piece("white", "pawn")],
       [pos |-> Pos(4, 3), piece |-> Piece("black", "pawn")],
       [pos |-> Pos(6, 5), piece |-> Piece("black", "pawn")],
       [pos |-> Pos(1, 4), piece |-> Piece("white", "pawn")] >>

RECURSIVE placeAllLate(_, _)
placeAllLate(board, S) ==
    IF S = {} THEN board
    ELSE LET i == CHOOSE x \in S : TRUE
         IN  placeAllLate(setPieceAt(board, LateSeedPool[i].pos, LateSeedPool[i].piece),
                          S \ {i})

\* both sides still have a piece
LateBoards ==
    {b \in {placeAllLate(EmptyBoard, S) :
               S \in {T \in SUBSET (1..Len(LateSeedPool)) : Cardinality(T) <= MaxLatePieces}} :
        countPieces(b, "white") > 0 /\ countPieces(b, "black") > 0}

\* the squares the user clicks on
LateClickSquares == {pos \in Squares : (pos.row + pos.col) % 2 = 1 /\ pos.row \in 1..6}

\* the numbers Math.random() hands out: the easy tier searches, or substitutes the
\* first legal move
LateRandoms == {NoRandom} \cup StoreRandoms

\* the store with the given position on the board and white (the human in PvE) to
\* move; the entries of the moves played so far are left out of `history`
lateGame(mode, difficulty, board) ==
    [startGame(mode, difficulty) EXCEPT
        !.board = board,
        !.capturedWhite = 12 - countPieces(board, "white"),
        !.capturedBlack = 12 - countPieces(board, "black"),
        !.history = <<HistoryEntry(cloneBoard(board), "white",
                                   12 - countPieces(board, "white"),
                                   12 - countPieces(board, "black"), NoMove)>>]

InitLate ==
    /\ EngineIdle
    /\ CoordInit
    /\ EndIdle
    /\ AIIdle
    /\ \E mode \in {"pvp", "pve"}, difficulty \in StoreDifficulties, board \in LateBoards :
          store = lateGame(mode, difficulty, board)
    /\ pending = <<>>
    /\ storeMoves = 0

NextLate ==
    \/ \E pos \in LateClickSquares :
          SelectPiece(pos) /\ UNCHANGED <<engineVars, coordVars, endVars, aiVars>>
    \/ Undo /\ UNCHANGED <<engineVars, coordVars, endVars, aiVars>>
    \/ Redo /\ UNCHANGED <<engineVars, coordVars, endVars, aiVars>>
    \/ \E random \in LateRandoms :
          AISearchDone(random) /\ UNCHANGED <<engineVars, coordVars, endVars, aiVars>>
    \/ AIApply /\ UNCHANGED <<engineVars, coordVars, endVars, aiVars>>

SpecLate == InitLate /\ [][NextLate]_vars

\* the fields the round trip is about
roundTripFields(state) ==
    [board |-> state.board, currentPlayer |-> state.currentPlayer,
     capturedWhite |-> state.capturedWhite, capturedBlack |-> state.capturedBlack,
     historyIndex |-> state.historyIndex, gameStatus |-> state.gameStatus,
     winner |-> state.winner]

\* C38 - undo/redo round trip in local PvP: from any reachable state in which undo
\* takes effect, undo followed at once by redo restores board, side to move, capture
\* counts, historyIndex, game status and winner, also when the game had ended.
C38_UndoRedoRoundTrip ==
    (store.gameMode = "pvp" /\ store.historyIndex > 0) =>
        /\ undo(store).historyIndex < Len(undo(store).history) - 1
        /\ roundTripFields(redo(undo(store))) = roundTripFields(store)

====
